---- MODULE Spec2Model ----
(***************************************************************************)
(* A model of cryptex's password store (src/pw_store.py): the object graph *)
(* of EntryContainer and Entry objects, the EntryContainer mutators and    *)
(* the path-based operations of PasswordStore.                             *)
(*                                                                         *)
(* Python objects are references, so the model is a heap: every container  *)
(* object has an identity (a number), and the two dicts of a container map *)
(* names to identities.  A name is a sequence of one-character strings.    *)
(* Every call is followed by a Return step of the caller, so that the      *)
(* state right after a call still holds the call, its outcome and the heap *)
(* as it was before the call.                                              *)
(***************************************************************************)
EXTENDS Integers, Sequences, FiniteSets, TLC

\* ------------------------------------------------------------------ bounds

\* Longest name given to an EntryContainer operation.
MaxLen == 3
\* Most illegal characters in one such name.
MaxSpecial == 1
\* Container objects of the heap, the root included.
MaxNodes == 3
\* Entry objects of the heap.
MaxEntries == 2
\* Longest name given to a store-level operation, and most segments of a path.
MaxSegLen == 1
MaxDepth == 2
\* Most elements below the store element of a document this program did not
\* write.
MaxForeignKids == 2
\* Most rows a StoreNavigator shows.
MaxVisibleRows == 2

\* ------------------------------------------------------------- the objects

Root == 0
Nodes == 0 .. (MaxNodes - 1)
Children == Nodes \ {Root}
EntryObjs == 1 .. MaxEntries

\* The characters the names given to one container are made of: one ordinary
\* character and the three the store reserves.
Chars == {"a", "'", "\\", "/"}
Punct == {"'", "\\", "/"}
\* The characters the names and paths given to a store are made of.
StoreChars == {"a", "b", "/"}

\* Python's None, where an object is expected.
None == 0 - 1
\* Python's None, where a str is expected: a value no str is equal to.
NoneText == <<"None">>

SeqsUpTo(S, n) == UNION {[1 .. k -> S] : k \in 0 .. n}
SpecialCount(s) == Cardinality({i \in DOMAIN s : s[i] \in Punct})

\* Names handed to the operations of one container.
ECNames == {s \in SeqsUpTo(Chars, MaxLen) : SpecialCount(s) <= MaxSpecial}
\* Names looked up as the old name of a rename.
LookupNames(U) == {s \in U : SpecialCount(s) = 0 \/ Len(s) = 1}
\* The values given to the fields of an Entry: to its constructor, where None
\* is the default, and to its setters.
FieldTexts == {<<>>, <<"a">>}
FieldValues == FieldTexts \cup {NoneText}
\* The Entry objects a document is made from: no field, every field, and each
\* field once absent, once empty and once a text.
EntryKinds ==
    {<<NoneText, NoneText, NoneText>>,
     <<<<"a">>, <<"a", "b">>, <<"a", "/", "b", "'">>>>,
     <<<<"a">>, NoneText, <<>>>>,
     <<<<>>, <<"b">>, NoneText>>,
     <<NoneText, <<>>, <<"a", "b", "a">>>>}
\* The names of the containers and entries a document is made from.
DocNames == {<<>>, <<"a">>, <<"a", "b">>}
\* Names handed to the operations of a store.
StoreNames == SeqsUpTo(StoreChars, MaxSegLen)

\* ------------------------------------------------------------- exceptions

ECException == "ECException"
ECDuplicateException == "ECDuplicateException"
ECNotFoundException == "ECNotFoundException"
ECNaughtyCharacterException == "ECNaughtyCharacterException"
OK == "ok"

\* Mutant: the class of a pattern whose backslash is not doubled, "['\/]".
ILLEGAL_CHAR_CLASS_unescaped == {"'", "/"}

\* The characters of the class ILLEGAL_CHAR_RE is compiled from:
\* "[" + "'" + "\\\\" + "/" + "]", i.e. the class ['\\/].
ILLEGAL_CHAR_CLASS == {"'", "\\", "/"}

\* Mutant: re.match in place of re.search looks at the first character only.
ILLEGAL_CHAR_RE_match(name) == Len(name) > 0 /\ name[1] \in ILLEGAL_CHAR_CLASS

ILLEGAL_CHAR_RE_search(name) == \E i \in 1 .. Len(name) : name[i] \in ILLEGAL_CHAR_CLASS

\* Python's truth value of a str, or of None.
Truthy(name) == name # NoneText /\ Len(name) > 0

\* ------------------------------------------------------------------ state

VARIABLES
    containers,     \* containers[n]: the dict self.containers of container n
    entries,        \* entries[n]: the dict self.entries of container n
    fields,         \* fields[x]: username, password and url of Entry x
    file,           \* the store's file on disk
    nav,            \* the StoreNavigator of the process, once it is made
    last,           \* the call that has just been made, or NoCall
    pre             \* the heap as it was when that call was made

vars == <<containers, entries, fields, file, nav, last, pre>>

\* What the operations act on: the objects, and the file.
Heap == [c |-> containers, e |-> entries, f |-> fields, file |-> file]

EmptyDict == <<>>
Put(d, k, v) == [x \in DOMAIN d \cup {k} |-> IF x = k THEN v ELSE d[x]]
Pop(d, k) == [x \in DOMAIN d \ {k} |-> d[x]]

\* An exception leaves the heap as it is at the raise.
Raise(h, exc) == [result |-> exc, h |-> h]
Return(h) == [result |-> OK, h |-> h]

NoCall == [op |-> "none", self |-> Root, obj |-> Root, name |-> <<>>,
           new |-> <<>>, path |-> <<>>, args |-> <<>>, result |-> OK, value |-> None]

\* ---------------------------------------------------------- EntryContainer

EntryContainer_init == [c |-> [n \in Nodes |-> EmptyDict], e |-> [n \in Nodes |-> EmptyDict]]

has_container(h, self, cont_name) == cont_name \in DOMAIN h.c[self]

get_container(h, self, cont_name) ==
    IF cont_name \notin DOMAIN h.c[self]
    THEN [result |-> ECNotFoundException]
    ELSE [result |-> OK, value |-> h.c[self][cont_name]]

get_container_count(h, self) == Cardinality(DOMAIN h.c[self])

get_containers(h, self) == {<<k, h.c[self][k]>> : k \in DOMAIN h.c[self]}

has_entry(h, self, entry_name) == entry_name \in DOMAIN h.e[self]

get_entry(h, self, entry_name) ==
    IF entry_name \notin DOMAIN h.e[self]
    THEN [result |-> ECNotFoundException]
    ELSE [result |-> OK, value |-> h.e[self][entry_name]]

get_entry_count(h, self) == Cardinality(DOMAIN h.e[self])

get_entries(h, self) == {<<k, h.e[self][k]>> : k \in DOMAIN h.e[self]}

clear(h, self) == Return([h EXCEPT !.c[self] = EmptyDict, !.e[self] = EmptyDict])

\* Mutant: add_container without its duplicate check.
add_container_overwriting(h, self, cont, name) ==
    IF Truthy(name) /\ ILLEGAL_CHAR_RE_search(name)
    THEN Raise(h, ECNaughtyCharacterException)
    ELSE Return([h EXCEPT !.c[self] = Put(@, name, cont)])

\* Mutant: add_container that looks for the name in both dicts.
add_container_cross_checked(h, self, cont, name) ==
    IF name \in DOMAIN h.c[self] \/ name \in DOMAIN h.e[self]
    THEN Raise(h, ECDuplicateException)
    ELSE IF Truthy(name) /\ ILLEGAL_CHAR_RE_search(name)
    THEN Raise(h, ECNaughtyCharacterException)
    ELSE Return([h EXCEPT !.c[self] = Put(@, name, cont)])

\* Mutant: add_container that refuses an empty name.
add_container_checking_empty(h, self, cont, name) ==
    IF name \in DOMAIN h.c[self]
    THEN Raise(h, ECDuplicateException)
    ELSE IF ~Truthy(name) \/ ILLEGAL_CHAR_RE_search(name)
    THEN Raise(h, ECNaughtyCharacterException)
    ELSE Return([h EXCEPT !.c[self] = Put(@, name, cont)])

add_container(h, self, cont, name) ==
    IF name \in DOMAIN h.c[self]
    THEN Raise(h, ECDuplicateException)
    ELSE IF Truthy(name) /\ ILLEGAL_CHAR_RE_search(name)
    THEN Raise(h, ECNaughtyCharacterException)
    ELSE Return([h EXCEPT !.c[self] = Put(@, name, cont)])

\* Mutant: rename_container that reads the old key without popping it.
rename_container_copying(h, self, old_name, new_name) ==
    IF old_name \notin DOMAIN h.c[self]
    THEN Raise(h, ECNotFoundException)
    ELSE IF new_name \in DOMAIN h.c[self]
    THEN Raise(h, ECDuplicateException)
    ELSE IF ILLEGAL_CHAR_RE_search(new_name)
    THEN Raise(h, ECNaughtyCharacterException)
    ELSE add_container(h, self, h.c[self][old_name], new_name)

\* Mutant: rename_container that looks at the new name before the old one.
rename_container_naughty_first(h, self, old_name, new_name) ==
    IF ILLEGAL_CHAR_RE_search(new_name)
    THEN Raise(h, ECNaughtyCharacterException)
    ELSE IF old_name \notin DOMAIN h.c[self]
    THEN Raise(h, ECNotFoundException)
    ELSE IF new_name \in DOMAIN h.c[self]
    THEN Raise(h, ECDuplicateException)
    ELSE LET cont == h.c[self][old_name]
             popped == [h EXCEPT !.c[self] = Pop(@, old_name)]
         IN  add_container(popped, self, cont, new_name)

rename_container(h, self, old_name, new_name) ==
    IF old_name \notin DOMAIN h.c[self]
    THEN Raise(h, ECNotFoundException)
    ELSE IF new_name \in DOMAIN h.c[self]
    THEN Raise(h, ECDuplicateException)
    ELSE IF ILLEGAL_CHAR_RE_search(new_name)
    THEN Raise(h, ECNaughtyCharacterException)
    ELSE LET cont == h.c[self][old_name]
             popped == [h EXCEPT !.c[self] = Pop(@, old_name)]
         IN  add_container(popped, self, cont, new_name)

\* Mutant: remove_container that empties the child and keeps its key.
remove_container_keeping(h, self, name) ==
    IF name \notin DOMAIN h.c[self]
    THEN Raise(h, ECNotFoundException)
    ELSE Return([h EXCEPT !.c[h.c[self][name]] = EmptyDict,
                          !.e[h.c[self][name]] = EmptyDict])

remove_container(h, self, name) ==
    IF name \notin DOMAIN h.c[self]
    THEN Raise(h, ECNotFoundException)
    ELSE Return([h EXCEPT !.c[self] = Pop(@, name)])

\* Mutant: add_entry that stores into the containers dict.
add_entry_into_containers(h, self, entry, name) ==
    IF name \in DOMAIN h.e[self]
    THEN Raise(h, ECDuplicateException)
    ELSE IF ILLEGAL_CHAR_RE_search(name)
    THEN Raise(h, ECNaughtyCharacterException)
    ELSE Return([h EXCEPT !.c[self] = Put(@, name, entry)])

add_entry(h, self, entry, name) ==
    IF name \in DOMAIN h.e[self]
    THEN Raise(h, ECDuplicateException)
    ELSE IF ILLEGAL_CHAR_RE_search(name)
    THEN Raise(h, ECNaughtyCharacterException)
    ELSE Return([h EXCEPT !.e[self] = Put(@, name, entry)])

\* Mutant: replace_entry without its lookup, which inserts a missing name.
replace_entry_upsert(h, self, entry, name) ==
    Return([h EXCEPT !.e[self] = Put(@, name, entry)])

replace_entry(h, self, entry, name) ==
    IF name \notin DOMAIN h.e[self]
    THEN Raise(h, ECNotFoundException)
    ELSE Return([h EXCEPT !.e[self] = Put(@, name, entry)])

\* Mutant: rename_entry that pops the old key before it looks at the new name.
rename_entry_popping_first(h, self, old_name, new_name) ==
    IF old_name \notin DOMAIN h.e[self]
    THEN Raise(h, ECNotFoundException)
    ELSE LET entry == h.e[self][old_name]
             popped == [h EXCEPT !.e[self] = Pop(@, old_name)]
         IN  IF new_name \in DOMAIN h.e[self]
             THEN Raise(popped, ECDuplicateException)
             ELSE add_entry(popped, self, entry, new_name)

rename_entry(h, self, old_name, new_name) ==
    IF old_name \notin DOMAIN h.e[self]
    THEN Raise(h, ECNotFoundException)
    ELSE IF new_name \in DOMAIN h.e[self]
    THEN Raise(h, ECDuplicateException)
    ELSE IF ILLEGAL_CHAR_RE_search(new_name)
    THEN Raise(h, ECNaughtyCharacterException)
    ELSE LET entry == h.e[self][old_name]
             popped == [h EXCEPT !.e[self] = Pop(@, old_name)]
         IN  add_entry(popped, self, entry, new_name)

remove_entry(h, self, name) ==
    IF name \notin DOMAIN h.e[self]
    THEN Raise(h, ECNotFoundException)
    ELSE Return([h EXCEPT !.e[self] = Pop(@, name)])

\* ------------------------------------------------------------------ Entry

Entry_init(username, password, url) ==
    [username |-> username, password |-> password, url |-> url]

\* x = Entry(username, password, url): the object x as the constructor makes it.
Entry_new(h, x, username, password, url) ==
    Return([h EXCEPT !.f[x] = Entry_init(username, password, url)])

get_username(h, x) == h.f[x].username
get_password(h, x) == h.f[x].password
get_url(h, x) == h.f[x].url

set_username(h, x, username) ==
    Return([h EXCEPT !.f[x].username = IF Len(username) > 0 THEN username ELSE NoneText])

set_password(h, x, password) ==
    Return([h EXCEPT !.f[x].password = IF Len(password) > 0 THEN password ELSE NoneText])

\* Mutant: set_url that stores what it is given.
set_url_storing(h, x, url) == Return([h EXCEPT !.f[x].url = url])

set_url(h, x, url) ==
    Return([h EXCEPT !.f[x].url = IF Len(url) > 0 THEN url ELSE NoneText])

\* ------------------------------------------------------- the caller's side

\* The container objects held by some container of the heap.
HeldNodes(h) == UNION {{h.c[n][k] : k \in DOMAIN h.c[n]} : n \in Nodes}
HeldEntries(h) == UNION {{h.e[n][k] : k \in DOMAIN h.e[n]} : n \in Nodes}

\* The containers reachable from n in at most k steps, n included.
RECURSIVE ReachWithin(_, _, _)
ReachWithin(h, n, k) ==
    IF k = 0 THEN {n}
    ELSE {n} \cup UNION {ReachWithin(h, h.c[n][x], k - 1) : x \in DOMAIN h.c[n]}
Reach(h, n) == ReachWithin(h, n, MaxNodes)

\* A caller that keeps the store a tree passes add_container a container no
\* container holds and that does not hold the receiver, as the unit tests do
\* (a newly made EntryContainer()), and add_entry and replace_entry an entry
\* no container holds.
UnheldContainer(h, self, cont) ==
    cont \notin HeldNodes(h) /\ cont # Root /\ self \notin Reach(h, cont)
UnheldEntry(h, entry) == entry \notin HeldEntries(h)

\* A call: the heap becomes what the operation leaves, and the call is kept
\* with the heap it was made on.
CallWith(op, self, obj, name, new, path, args, r) ==
    /\ last.op = "none"
    /\ last' = [op |-> op, self |-> self, obj |-> obj, name |-> name,
                new |-> new, path |-> path, args |-> args, result |-> r.result,
                value |-> IF "value" \in DOMAIN r THEN r.value ELSE None]
    /\ pre' = Heap
    /\ containers' = r.h.c
    /\ entries' = r.h.e
    /\ fields' = r.h.f
    /\ file' = r.h.file
    /\ UNCHANGED nav

Call(op, self, obj, name, new, path, r) == CallWith(op, self, obj, name, new, path, <<>>, r)

\* The caller has seen the outcome and goes on.
Observe ==
    /\ last.op # "none"
    /\ last' = NoCall
    /\ pre' = Heap
    /\ UNCHANGED <<containers, entries, fields, file, nav>>

Do_add_container(self, cont, name) ==
    Call("add_container", self, cont, name, <<>>, <<>>, add_container(Heap, self, cont, name))
Do_rename_container(self, old, new) ==
    Call("rename_container", self, Root, old, new, <<>>, rename_container(Heap, self, old, new))
Do_remove_container(self, name) ==
    Call("remove_container", self, Root, name, <<>>, <<>>, remove_container(Heap, self, name))
Do_add_entry(self, entry, name) ==
    Call("add_entry", self, entry, name, <<>>, <<>>, add_entry(Heap, self, entry, name))
Do_replace_entry(self, entry, name) ==
    Call("replace_entry", self, entry, name, <<>>, <<>>, replace_entry(Heap, self, entry, name))
Do_rename_entry(self, old, new) ==
    Call("rename_entry", self, Root, old, new, <<>>, rename_entry(Heap, self, old, new))
Do_remove_entry(self, name) ==
    Call("remove_entry", self, Root, name, <<>>, <<>>, remove_entry(Heap, self, name))
Do_clear(self) ==
    Call("clear", self, Root, <<>>, <<>>, <<>>, clear(Heap, self))

Do_Entry(x, username, password, url) ==
    CallWith("Entry", Root, x, <<>>, <<>>, <<>>, <<username, password, url>>,
             Entry_new(Heap, x, username, password, url))
Do_set_username(x, username) ==
    CallWith("set_username", Root, x, <<>>, <<>>, <<>>, <<username>>, set_username(Heap, x, username))
Do_set_password(x, password) ==
    CallWith("set_password", Root, x, <<>>, <<>>, <<>>, <<password>>, set_password(Heap, x, password))
Do_set_url(x, url) ==
    CallWith("set_url", Root, x, <<>>, <<>>, <<>>, <<url>>, set_url(Heap, x, url))

\* ----------------------------------------------------------- PasswordStore

\* str.split(sep) for a one-character separator.
RECURSIVE split(_, _)
split(s, sep) ==
    IF \A i \in 1 .. Len(s) : s[i] # sep
    THEN <<s>>
    ELSE LET i == CHOOSE x \in 1 .. Len(s) : s[x] = sep /\ \A y \in 1 .. (x - 1) : s[y] # sep
         IN  <<SubSeq(s, 1, i - 1)>> \o split(SubSeq(s, i + 1, Len(s)), sep)

\* sep.join(parts), each part led by the separator: "/" + "/".join(parts).
RECURSIVE JoinAbs(_)
JoinAbs(parts) ==
    IF parts = <<>> THEN <<>> ELSE <<"/">> \o Head(parts) \o JoinAbs(Tail(parts))

NonEmpty(seg) == Len(seg) > 0

\* path_util.simplify_path: the canonical absolute form of a path, its empty
\* segments dropped.
simplify_path(path) ==
    LET segs == SelectSeq(split(path, "/"), NonEmpty)
    IN  IF segs = <<>> THEN <<"/">> ELSE JoinAbs(segs)

\* Mutant: a walk that steps over a segment that is not a key.
RECURSIVE walk_containers_skipping(_, _, _)
walk_containers_skipping(h, dest_cont, cont_chain) ==
    IF cont_chain = <<>>
    THEN [result |-> OK, value |-> dest_cont]
    ELSE IF Len(Head(cont_chain)) = 0 \/ Head(cont_chain) \notin DOMAIN h.c[dest_cont]
    THEN walk_containers_skipping(h, dest_cont, Tail(cont_chain))
    ELSE walk_containers_skipping(h, h.c[dest_cont][Head(cont_chain)], Tail(cont_chain))

\* The loop of get_container_by_path over the segments still to walk.
RECURSIVE walk_containers(_, _, _)
walk_containers(h, dest_cont, cont_chain) ==
    IF cont_chain = <<>>
    THEN [result |-> OK, value |-> dest_cont]
    ELSE IF Len(Head(cont_chain)) = 0
    THEN walk_containers(h, dest_cont, Tail(cont_chain))
    ELSE LET r == get_container(h, dest_cont, Head(cont_chain))
         IN  IF r.result # OK THEN r
             ELSE walk_containers(h, r.value, Tail(cont_chain))

get_container_by_path(h, path) ==
    walk_containers(h, Root, split(simplify_path(path), "/"))

\* Mutant: add_entry that resolves the path before it looks at its arguments.
store_add_entry_resolving_first(h, entry, entry_name, path) ==
    LET dest_cont == get_container_by_path(h, simplify_path(path))
    IN  IF dest_cont.result # OK
        THEN Raise(h, dest_cont.result)
        ELSE IF entry = None \/ Len(entry_name) = 0
        THEN Raise(h, ECException)
        ELSE add_entry(h, dest_cont.value, entry, entry_name)

store_add_entry(h, entry, entry_name, path) ==
    IF entry = None
    THEN Raise(h, ECException)
    ELSE IF Len(entry_name) = 0
    THEN Raise(h, ECException)
    ELSE LET dest_cont == get_container_by_path(h, simplify_path(path))
         IN  IF dest_cont.result # OK
             THEN Raise(h, dest_cont.result)
             ELSE add_entry(h, dest_cont.value, entry, entry_name)

\* Mutant: add_container that adds to the root, whatever the path.
store_add_container_at_root(h, cont, cont_name, path) ==
    IF cont = None
    THEN Raise(h, ECException)
    ELSE IF Len(cont_name) = 0
    THEN Raise(h, ECException)
    ELSE add_container(h, Root, cont, cont_name)

store_add_container(h, cont, cont_name, path) ==
    IF cont = None
    THEN Raise(h, ECException)
    ELSE IF Len(cont_name) = 0
    THEN Raise(h, ECException)
    ELSE LET dest_cont == get_container_by_path(h, simplify_path(path))
         IN  IF dest_cont.result # OK
             THEN Raise(h, dest_cont.result)
             ELSE add_container(h, dest_cont.value, cont, cont_name)

\* A getter's outcome as the outcome of a call: the heap is left as it is.
Pure(h, r) ==
    IF r.result = OK THEN [result |-> OK, value |-> r.value, h |-> h] ELSE Raise(h, r.result)

\* The loop of is_valid_path over the names still to walk; cc_count is the
\* number of names after the current one.
RECURSIVE valid_walk(_, _, _)
valid_walk(h, dest_cont, cont_chain) ==
    IF cont_chain = <<>>
    THEN TRUE
    ELSE LET c == Head(cont_chain)
             cc_count == Len(cont_chain) - 1
         IN  IF cc_count > 0
             THEN LET r == get_container(h, dest_cont, c)
                  IN  IF r.result # OK THEN FALSE
                      ELSE valid_walk(h, r.value, Tail(cont_chain))
             ELSE IF ~has_container(h, dest_cont, c) /\ ~has_entry(h, dest_cont, c)
             THEN FALSE
             ELSE valid_walk(h, dest_cont, Tail(cont_chain))

\* Mutant: is_valid_path that accepts containers only.
is_valid_path_containers_only(h, path) ==
    [result |-> OK, value |-> get_container_by_path(h, path).result = OK]

is_valid_path(h, path) ==
    [result |-> OK,
     value |-> valid_walk(h, Root, SelectSeq(split(simplify_path(path), "/"), Truthy))]

\* str.rstrip(ch).
RECURSIVE rstrip(_, _)
rstrip(s, ch) ==
    IF Len(s) > 0 /\ s[Len(s)] = ch THEN rstrip(SubSeq(s, 1, Len(s) - 1), ch) ELSE s

\* os.path.split (posixpath): head and tail around the last separator; the
\* head loses its trailing separators unless it is made of separators only.
os_path_split(p) ==
    LET seps == {x \in 1 .. Len(p) : p[x] = "/"}
        i == IF seps = {} THEN 0 ELSE CHOOSE x \in seps : \A y \in seps : y <= x
        head == SubSeq(p, 1, i)
        tail == SubSeq(p, i + 1, Len(p))
    IN  <<IF Len(head) > 0 /\ (\E x \in 1 .. Len(head) : head[x] # "/")
          THEN rstrip(head, "/") ELSE head,
          tail>>

get_entry_by_path(h, path) ==
    LET sp == os_path_split(simplify_path(path))
        cont == get_container_by_path(h, sp[1])
    IN  IF cont.result # OK THEN [result |-> cont.result]
        ELSE LET entry == get_entry(h, cont.value, sp[2])
             IN  IF entry.result # OK THEN [result |-> entry.result]
                 ELSE [result |-> OK, value |-> <<sp[2], entry.value>>]

\* Mutant: update_entry that opens the file for writing, and so truncates
\* it, once it has updated the entry.
update_entry_flushing(h, path, updated_name, updated_entry) ==
    IF updated_entry = None THEN Raise(h, ECException)
    ELSE IF Len(updated_name) = 0 THEN Raise(h, ECException)
    ELSE LET sp == os_path_split(path)
             current_name == sp[2]
             cont == get_container_by_path(h, simplify_path(sp[1]))
         IN  IF cont.result # OK THEN Raise(h, cont.result)
             ELSE LET renamed == IF updated_name # current_name
                                 THEN rename_entry(h, cont.value, current_name, updated_name)
                                 ELSE Return(h)
                  IN  IF renamed.result # OK THEN renamed
                      ELSE LET replaced == replace_entry(renamed.h, cont.value,
                                                         updated_entry, updated_name)
                           IN  IF replaced.result # OK THEN replaced
                               ELSE Return([replaced.h EXCEPT !.file =
                                              [exists |-> TRUE, password |-> h.file.password,
                                               data |-> [h.file.data EXCEPT !.kind = "empty"]]])

update_entry(h, path, updated_name, updated_entry) ==
    IF updated_entry = None
    THEN Raise(h, ECException)
    ELSE IF Len(updated_name) = 0
    THEN Raise(h, ECException)
    ELSE LET sp == os_path_split(path)
             current_name == sp[2]
             cont == get_container_by_path(h, simplify_path(sp[1]))
         IN  IF cont.result # OK
             THEN Raise(h, cont.result)
             ELSE LET renamed == IF updated_name # current_name
                                 THEN rename_entry(h, cont.value, current_name, updated_name)
                                 ELSE Return(h)
                  IN  IF renamed.result # OK
                      THEN renamed
                      ELSE replace_entry(renamed.h, cont.value, updated_entry, updated_name)

\* Mutant: the first lines of update_entry, replacing the entry as well.
update_entry_rename_replacing(h, path, updated_name, updated_entry) ==
    LET done == update_entry(h, path, updated_name, updated_entry)
        cont == get_container_by_path(h, simplify_path(os_path_split(path)[1]))
    IN  [result |-> done.result, h |-> done.h,
         value |-> IF cont.result = OK THEN cont.value ELSE None]

\* update_entry up to its rename (lines 299-306): what it raises there, or
\* the objects as the rename leaves them and the container it has found.
update_entry_rename(h, path, updated_name, updated_entry) ==
    IF updated_entry = None
    THEN [result |-> ECException, h |-> h, value |-> None]
    ELSE IF Len(updated_name) = 0
    THEN [result |-> ECException, h |-> h, value |-> None]
    ELSE LET sp == os_path_split(path)
             current_name == sp[2]
             cont == get_container_by_path(h, simplify_path(sp[1]))
         IN  IF cont.result # OK
             THEN [result |-> cont.result, h |-> h, value |-> None]
             ELSE LET renamed == IF updated_name # current_name
                                 THEN rename_entry(h, cont.value, current_name, updated_name)
                                 ELSE Return(h)
                  IN  [result |-> renamed.result, h |-> renamed.h, value |-> cont.value]

\* A call that has not returned: update_entry between its rename and its
\* replace_entry (line 307). And the KeyboardInterrupt that ends it there.
AtLine307 == "at line 307"
KeyboardInterrupt == "KeyboardInterrupt"

\* update_entry is called and runs up to line 307, or raises before.
Do_update_entry_rename(path, updated_name, updated_entry) ==
    LET r == update_entry_rename(Heap, path, updated_name, updated_entry)
    IN  /\ last.op = "none"
        /\ last' = [op |-> "update_entry", self |-> Root, obj |-> updated_entry,
                    name |-> updated_name, new |-> <<>>, path |-> path, args |-> <<>>,
                    result |-> IF r.result = OK THEN AtLine307 ELSE r.result,
                    value |-> r.value]
        /\ pre' = Heap
        /\ containers' = r.h.c
        /\ entries' = r.h.e
        /\ fields' = r.h.f
        /\ file' = r.h.file
        /\ UNCHANGED nav

\* Line 307, and the return of update_entry.
Do_update_entry_replace ==
    LET r == replace_entry(Heap, last.value, last.obj, last.name)
    IN  /\ last.op = "update_entry"
        /\ last.result = AtLine307
        /\ last' = [last EXCEPT !.result = r.result]
        /\ containers' = r.h.c
        /\ entries' = r.h.e
        /\ fields' = r.h.f
        /\ file' = r.h.file
        /\ UNCHANGED nav
        /\ UNCHANGED pre

\* The process is interrupted before line 307: update_entry ends there.
Do_KeyboardInterrupt ==
    /\ last.op = "update_entry"
    /\ last.result = AtLine307
    /\ last' = [last EXCEPT !.result = KeyboardInterrupt]
    /\ UNCHANGED <<containers, entries, fields, file, nav, pre>>

Do_get_container_by_path(path) ==
    Call("get_container_by_path", Root, Root, <<>>, <<>>, path,
         Pure(Heap, get_container_by_path(Heap, path)))
Do_is_valid_path(path) ==
    Call("is_valid_path", Root, Root, <<>>, <<>>, path, Pure(Heap, is_valid_path(Heap, path)))
Do_get_entry_by_path(path) ==
    Call("get_entry_by_path", Root, Root, <<>>, <<>>, path,
         Pure(Heap, get_entry_by_path(Heap, path)))
Do_update_entry(path, updated_name, updated_entry) ==
    Call("update_entry", Root, updated_entry, updated_name, <<>>, path,
         update_entry(Heap, path, updated_name, updated_entry))
Do_store_add_entry(entry, name, path) ==
    Call("store_add_entry", Root, entry, name, <<>>, path, store_add_entry(Heap, entry, name, path))
Do_store_add_container(cont, name, path) ==
    Call("store_add_container", Root, cont, name, <<>>, path, store_add_container(Heap, cont, name, path))

\* The paths given to a store: every walk of at most MaxDepth segments, an
\* empty segment included (a doubled or a trailing separator).
StorePaths == {IF segs = <<>> THEN <<"/">> ELSE JoinAbs(segs) :
                 segs \in SeqsUpTo({s \in StoreNames : "/" \notin {s[i] : i \in DOMAIN s}}, MaxDepth)}

\* ---------------------------------------------------------- Document Codec

ROOT_TAG == "cryptex"
STORE_ROOT_TAG == "store"
NAME_ATTRIBUTE == "name"
CONTAINER_TAG == "container"
ENTRY_TAG == "entry"
USERNAME_TAG == "username"
PASSWORD_TAG == "password"
URL_TAG == "url"

\* The exceptions of the libraries, which are no ECException.
ParseError == "ParseError"
KeyError == "KeyError"
TypeError == "TypeError"
BinasciiError == "binascii.Error"
UnicodeDecodeError == "UnicodeDecodeError"

\* str.encode() and bytes.decode('utf-8') on the characters of the model,
\* each one byte long.
Ord == ("a" :> 97) @@ ("b" :> 98) @@ ("'" :> 39) @@ ("\\" :> 92) @@ ("/" :> 47)
encode(s) == [i \in 1 .. Len(s) |-> Ord[s[i]]]
decode(bytes) ==
    IF \A i \in 1 .. Len(bytes) : \E ch \in DOMAIN Ord : Ord[ch] = bytes[i]
    THEN [result |-> OK,
          value |-> [i \in 1 .. Len(bytes) |-> CHOOSE ch \in DOMAIN Ord : Ord[ch] = bytes[i]]]
    ELSE [result |-> UnicodeDecodeError]

B64Alphabet ==
    <<"A", "B", "C", "D", "E", "F", "G", "H", "I", "J", "K", "L", "M", "N", "O", "P",
      "Q", "R", "S", "T", "U", "V", "W", "X", "Y", "Z", "a", "b", "c", "d", "e", "f",
      "g", "h", "i", "j", "k", "l", "m", "n", "o", "p", "q", "r", "s", "t", "u", "v",
      "w", "x", "y", "z", "0", "1", "2", "3", "4", "5", "6", "7", "8", "9", "+", "/">>
B64Char(n) == B64Alphabet[n + 1]
B64Index(ch) == (CHOOSE i \in 1 .. 64 : B64Alphabet[i] = ch) - 1
IsB64OrPad(ch) == (\E i \in 1 .. 64 : B64Alphabet[i] = ch) \/ ch = "="

\* base64.b64encode(bytes).decode('utf-8'): three bytes become four
\* characters, an incomplete last group is padded with "=".
RECURSIVE b64encode(_)
b64encode(bytes) ==
    IF Len(bytes) = 0
    THEN <<>>
    ELSE IF Len(bytes) = 1
    THEN <<B64Char(bytes[1] \div 4), B64Char((bytes[1] % 4) * 16), "=", "=">>
    ELSE IF Len(bytes) = 2
    THEN <<B64Char(bytes[1] \div 4),
           B64Char((bytes[1] % 4) * 16 + bytes[2] \div 16),
           B64Char((bytes[2] % 16) * 4), "=">>
    ELSE <<B64Char(bytes[1] \div 4),
           B64Char((bytes[1] % 4) * 16 + bytes[2] \div 16),
           B64Char((bytes[2] % 16) * 4 + bytes[3] \div 64),
           B64Char(bytes[3] % 64)>> \o b64encode(SubSeq(bytes, 4, Len(bytes)))

\* The groups of four characters of a padded base64 text, decoded.
RECURSIVE b64decode_groups(_)
b64decode_groups(t) ==
    IF Len(t) = 0
    THEN <<>>
    ELSE LET n1 == B64Index(t[1])
             n2 == B64Index(t[2])
         IN  IF t[3] = "="
             THEN <<n1 * 4 + n2 \div 16>>
             ELSE IF t[4] = "="
             THEN <<n1 * 4 + n2 \div 16, (n2 % 16) * 16 + B64Index(t[3]) \div 4>>
             ELSE <<n1 * 4 + n2 \div 16,
                    (n2 % 16) * 16 + B64Index(t[3]) \div 4,
                    (B64Index(t[3]) % 4) * 64 + B64Index(t[4])>>
                  \o b64decode_groups(SubSeq(t, 5, Len(t)))

\* base64.b64decode(text): None is no text (TypeError); the characters
\* outside the alphabet are dropped; what is left has to be whole groups of
\* four, padded at the end only (binascii.Error otherwise).
b64decode(text) ==
    IF text = NoneText
    THEN [result |-> TypeError]
    ELSE LET t == SelectSeq(text, IsB64OrPad)
             pads == {i \in 1 .. Len(t) : t[i] = "="}
         IN  IF Len(t) % 4 # 0 \/ \E i \in pads : i < Len(t) - 1 \/ (i = Len(t) - 1 /\ t[Len(t)] # "=")
             THEN [result |-> BinasciiError]
             ELSE [result |-> OK, value |-> b64decode_groups(t)]

\* An exception a call raises leaves the caller at once; otherwise the rest
\* of the caller runs, on the value the call returned (Try) or on the objects
\* as the call left them (TryDo).
Try(r, rest(_)) == IF r.result # OK THEN [result |-> r.result] ELSE rest(r.value)
TryDo(r, rest(_)) == IF r.result # OK THEN [result |-> r.result] ELSE rest(r.h)

\* b64decode(text).decode('utf-8')
b64decode_text(text) == Try(b64decode(text), decode)

\* b64encode(text.encode()).decode('utf-8')
b64encode_text(text) == b64encode(encode(text))

\* An xml.etree Element: its tag, its attributes, its text and its children.
Element(tag, attrib, text, kids) == [tag |-> tag, attrib |-> attrib, text |-> text, kids |-> kids]
\* None, where an Element is expected.
NoneElement == Element("None", EmptyDict, NoneText, <<>>)

\* An EntryContainer and what it holds, as a value: the dict of its
\* containers, each such a value, and the dict of its entries, each the three
\* fields of an Entry.
EmptyContainer == [c |-> EmptyDict, e |-> EmptyDict]
RECURSIVE TreeOf(_, _)
TreeOf(h, n) ==
    [c |-> [k \in DOMAIN h.c[n] |-> TreeOf(h, h.c[n][k])],
     e |-> [k \in DOMAIN h.e[n] |-> h.f[h.e[n][k]]]]

\* The elements of a set in the order an iteration takes them: some order.
SetToSeq(S) == CHOOSE f \in [1 .. Cardinality(S) -> S] : \A x \in S : \E i \in DOMAIN f : f[i] = x

\* The sub-element serialize_xml gives an entry for one field, if any.
field_element(tag, value) ==
    IF Truthy(value) THEN <<Element(tag, EmptyDict, b64encode_text(value), <<>>)>> ELSE <<>>

entry_element(k, e) ==
    Element(ENTRY_TAG, Put(EmptyDict, NAME_ATTRIBUTE, b64encode_text(k)), NoneText,
            field_element(USERNAME_TAG, e.username)
               \o field_element(PASSWORD_TAG, e.password)
               \o field_element(URL_TAG, e.url))

\* serialize_xml: the element it appends to xml_root for container cont.
RECURSIVE serialize_xml(_, _, _)
serialize_xml(cont_name, cont, cont_tag) ==
    LET es == SetToSeq({<<k, cont.e[k]>> : k \in DOMAIN cont.e})
        cs == SetToSeq({<<k, cont.c[k]>> : k \in DOMAIN cont.c})
    IN  Element(cont_tag,
                IF Truthy(cont_name)
                THEN Put(EmptyDict, NAME_ATTRIBUTE, b64encode_text(cont_name))
                ELSE EmptyDict,
                NoneText,
                [i \in 1 .. Len(es) |-> entry_element(es[i][1], es[i][2])]
                   \o [i \in 1 .. Len(cs) |-> serialize_xml(cs[i][1], cs[i][2], CONTAINER_TAG)])

\* The bytes of a document: None, no byte at all, the text of an element
\* tree, or bytes that are not the text of any.
Data(kind, root) == [kind |-> kind, root |-> root]
NoData == Data("None", NoneElement)
EmptyData == Data("empty", NoneElement)
NotXml == Data("not xml", NoneElement)
\* ET.tostring and ET.fromstring.
tostring(xml_root) == Data("xml", xml_root)
fromstring(data) ==
    IF data.kind = "xml" THEN [result |-> OK, value |-> data.root] ELSE [result |-> ParseError]

\* Element.find(tag): the first child with the tag, or None.
find(el, tag) ==
    LET hits == {i \in 1 .. Len(el.kids) : el.kids[i].tag = tag}
    IN  IF hits = {} THEN NoneElement
        ELSE el.kids[CHOOSE i \in hits : \A j \in hits : i <= j]

\* Element.iter() of each of els: the element and everything below it, in
\* document order.
RECURSIVE iter_all(_)
iter_all(els) ==
    IF els = <<>> THEN <<>>
    ELSE <<Head(els)>> \o iter_all(Head(els).kids) \o iter_all(Tail(els))

\* One container, or one entry, as the heap of a call of its own methods.
AsHeap(cont) == [c |-> [n \in {Root} |-> cont.c], e |-> [n \in {Root} |-> cont.e]]
OfHeap(h) == [c |-> h.c[Root], e |-> h.e[Root]]
EntryAsHeap(entry) == [f |-> [x \in {1} |-> entry]]

\* The loop of deserialize_xml over the elements below an entry element.
RECURSIVE read_fields(_, _)
read_fields(new_entry, ens) ==
    IF ens = <<>>
    THEN [result |-> OK, value |-> new_entry]
    ELSE LET en == Head(ens)
         IN  IF en.tag \in {USERNAME_TAG, PASSWORD_TAG, URL_TAG}
             THEN Try(b64decode_text(en.text),
                      LAMBDA text :
                        read_fields(
                          IF en.tag = USERNAME_TAG
                          THEN set_username(EntryAsHeap(new_entry), 1, text).h.f[1]
                          ELSE IF en.tag = PASSWORD_TAG
                          THEN set_password(EntryAsHeap(new_entry), 1, text).h.f[1]
                          ELSE set_url(EntryAsHeap(new_entry), 1, text).h.f[1],
                          Tail(ens)))
             ELSE read_fields(new_entry, Tail(ens))

\* deserialize_xml, and its loop over the children of the node.
RECURSIVE deserialize_xml(_), read_children(_, _)
read_children(cont, els) ==
    IF els = <<>>
    THEN [result |-> OK, value |-> cont]
    ELSE LET el == Head(els)
         IN  IF el.tag = CONTAINER_TAG
             THEN Try(deserialize_xml(el),
                      LAMBDA nc :
                        TryDo(add_container(AsHeap(cont), Root, nc[2], nc[1]),
                              LAMBDA h : read_children(OfHeap(h), Tail(els))))
             ELSE IF el.tag = ENTRY_TAG
             THEN Try(read_fields(Entry_init(NoneText, NoneText, NoneText), iter_all(<<el>>)),
                      LAMBDA new_entry :
                        IF NAME_ATTRIBUTE \notin DOMAIN el.attrib
                        THEN [result |-> KeyError]
                        ELSE Try(b64decode_text(el.attrib[NAME_ATTRIBUTE]),
                                 LAMBDA name :
                                   TryDo(add_entry(AsHeap(cont), Root, new_entry, name),
                                         LAMBDA h : read_children(OfHeap(h), Tail(els)))))
             ELSE read_children(cont, Tail(els))

deserialize_xml(xml_node) ==
    IF xml_node = NoneElement
    THEN [result |-> OK, value |-> <<NoneText, EmptyContainer>>]
    ELSE Try(IF NAME_ATTRIBUTE \in DOMAIN xml_node.attrib
             THEN b64decode_text(xml_node.attrib[NAME_ATTRIBUTE])
             ELSE [result |-> OK, value |-> NoneText],
             LAMBDA cont_name :
               Try(read_children(EmptyContainer, xml_node.kids),
                   LAMBDA cont : [result |-> OK, value |-> <<cont_name, cont>>]))

\* ------------------------------------------- PasswordStore and its document

\* A PasswordStore object made from a document, as a value; and None, where a
\* PasswordStore is expected.
Store(root) == [is_none |-> FALSE, root |-> root]
NoStore == [is_none |-> TRUE, root |-> EmptyContainer]

\* The exceptions an 'except ECException' clause catches.
ECExceptions ==
    {ECException, ECDuplicateException, ECNotFoundException, ECNaughtyCharacterException}

\* PasswordStore.__init__: only ET.ParseError is turned into ECException.
PasswordStore_init(serialized_data) ==
    IF serialized_data.kind \notin {"None", "empty"}
    THEN LET xml_root == fromstring(serialized_data)
         IN  IF xml_root.result = ParseError
             THEN [result |-> ECException]
             ELSE Try(deserialize_xml(find(xml_root.value, STORE_ROOT_TAG)),
                      LAMBDA d : [result |-> OK, value |-> Store(d[2])])
    ELSE [result |-> OK, value |-> Store(deserialize_xml(NoneElement).value[2])]

is_empty(store) == DOMAIN store.root.c = {} /\ DOMAIN store.root.e = {}

\* PasswordStore.serialize_to_xml of a store whose root is the value root.
serialize_to_xml(root) ==
    tostring(Element(ROOT_TAG, EmptyDict, NoneText,
                     <<serialize_xml(NoneText, root, STORE_ROOT_TAG)>>))

\* The file when os.path.exists is false of it.
NoFile == [exists |-> FALSE, password |-> <<>>, data |-> NoData]

\* The encryption collaborator: the file holds the document under the
\* password; decrypting with another password fails with an error of its own.
DecryptError == "DecryptError"
encrypt_from_string(h, password, data) ==
    Return([h EXCEPT !.file = [exists |-> TRUE, password |-> password, data |-> data]])
decrypt_to_string(h, password) ==
    IF h.file.password = password
    THEN [result |-> OK, value |-> h.file.data]
    ELSE [result |-> DecryptError]

save(h, root, password) == encrypt_from_string(h, password, serialize_to_xml(root))

\* try: store = PasswordStore(...); except ECException: store = None. Any
\* other exception leaves open_pw_store.
except_ECException(h, store) ==
    IF store.result \in ECExceptions
    THEN [result |-> OK, value |-> NoStore, h |-> h]
    ELSE IF store.result # OK
    THEN Raise(h, store.result)
    ELSE [result |-> OK, value |-> store.value, h |-> h]

\* Mutant: open_pw_store that does not save the store it makes.
open_pw_store_not_saving(h, password) ==
    IF h.file.exists
    THEN LET pw_store_xml == decrypt_to_string(h, password)
         IN  IF pw_store_xml.result # OK
             THEN Raise(h, pw_store_xml.result)
             ELSE except_ECException(h, PasswordStore_init(pw_store_xml.value))
    ELSE [result |-> OK, value |-> PasswordStore_init(NoData).value, h |-> h]

open_pw_store(h, password) ==
    IF h.file.exists
    THEN LET pw_store_xml == decrypt_to_string(h, password)
         IN  IF pw_store_xml.result # OK
             THEN Raise(h, pw_store_xml.result)
             ELSE except_ECException(h, PasswordStore_init(pw_store_xml.value))
    ELSE LET store == PasswordStore_init(NoData)
         IN  [result |-> OK, value |-> store.value,
              h |-> save(h, store.value.root, password).h]

Do_serialize_to_xml ==
    Call("serialize_to_xml", Root, Root, <<>>, <<>>, <<>>,
         [result |-> OK, value |-> serialize_to_xml(TreeOf(Heap, Root)), h |-> Heap])
Do_PasswordStore(serialized_data) ==
    CallWith("PasswordStore", Root, Root, <<>>, <<>>, <<>>, <<serialized_data>>,
             Pure(Heap, PasswordStore_init(serialized_data)))
Do_open_pw_store(password) ==
    CallWith("open_pw_store", Root, Root, <<>>, <<>>, <<>>, <<password>>,
             open_pw_store(Heap, password))
Do_save(password) ==
    CallWith("save", Root, Root, <<>>, <<>>, <<>>, <<password>>,
             save(Heap, TreeOf(Heap, Root), password))
\* The save of a process that was interrupted in update_entry: the store is
\* saved as the interrupt left it.
Do_save_interrupted(password) ==
    LET r == save(Heap, TreeOf(Heap, Root), password)
    IN  /\ last.op = "update_entry"
        /\ last.result = KeyboardInterrupt
        /\ last.args = <<>>
        /\ last' = [last EXCEPT !.args = <<password>>]
        /\ containers' = r.h.c
        /\ entries' = r.h.e
        /\ fields' = r.h.f
        /\ file' = r.h.file
        /\ UNCHANGED nav
        /\ UNCHANGED pre

\* ---------------------------------------------------------- StoreNavigator

IndexError == "IndexError"
ValueError == "ValueError"

Extent(min, max) == [min |-> min, max |-> max]
span(e) == e.max - e.min + 1

\* No StoreNavigator yet.
NoNav == [exists |-> FALSE, level |-> <<"/">>, level_container |-> Root, selection |-> 0,
          top_row_index |-> 0, row_extent |-> Extent(0, 0),
          level_container_names |-> <<>>, level_entry_names |-> <<>>]

\* list[i] of Python: a negative index counts from the end.
getitem(list, i) ==
    IF 0 <= i /\ i < Len(list) THEN [result |-> OK, value |-> list[i + 1]]
    ELSE IF i < 0 /\ 0 - i <= Len(list) THEN [result |-> OK, value |-> list[Len(list) + i + 1]]
    ELSE [result |-> IndexError]

\* s < t of two str, and list.sort() of the names of a dict.
str_lt(s, t) ==
    \E i \in 1 .. Len(t) :
       /\ i - 1 <= Len(s)
       /\ \A j \in 1 .. (i - 1) : s[j] = t[j]
       /\ (Len(s) = i - 1 \/ Ord[s[i]] < Ord[t[i]])
sort(names) ==
    CHOOSE list \in [1 .. Cardinality(names) -> names] :
       \A i, j \in 1 .. Cardinality(names) : i < j => str_lt(list[i], list[j])

\* str.rindex("/"): the index, from 0, of the last "/".
rindex(s, ch) ==
    LET hits == {i \in 1 .. Len(s) : s[i] = ch}
    IN  IF hits = {} THEN [result |-> ValueError]
        ELSE [result |-> OK, value |-> (CHOOSE i \in hits : \A j \in hits : j <= i) - 1]

get_selection(n) ==
    LET cc == Len(n.level_container_names)
        ec == Len(n.level_entry_names)
    IN  IF cc = 0 /\ ec = 0
        THEN [result |-> OK, value |-> <<<<>>, FALSE>>]
        ELSE IF n.selection >= cc
        THEN LET name == getitem(n.level_entry_names, n.selection - cc)
             IN  IF name.result # OK THEN name
                 ELSE [result |-> OK, value |-> <<name.value, FALSE>>]
        ELSE LET name == getitem(n.level_container_names, n.selection)
             IN  IF name.result # OK THEN name
                 ELSE [result |-> OK, value |-> <<name.value, TRUE>>]

\* The lines of change_level after the level is set (lines 58-68).
change_level_refresh(h, n) ==
    LET cont == get_container_by_path(h, n.level)
    IN  IF cont.result # OK
        THEN [result |-> cont.result, nav |-> n]
        ELSE [result |-> OK,
              nav |-> [n EXCEPT !.level_container = cont.value,
                                !.level_container_names = sort(DOMAIN h.c[cont.value]),
                                !.level_entry_names = sort(DOMAIN h.e[cont.value]),
                                !.selection = 0]]

change_level(h, n, direction) ==
    IF direction < 0
    THEN LET sel == get_selection(n)
         IN  IF sel.result # OK
             THEN [result |-> sel.result, nav |-> n]
             ELSE IF ~sel.value[2]
             THEN [result |-> OK, nav |-> n]
             ELSE change_level_refresh(h, [n EXCEPT !.level = @ \o <<"/">> \o sel.value[1]])
    ELSE IF direction > 0 /\ n.level # <<"/">>
    THEN LET last_slash == rindex(n.level, "/")
         IN  IF last_slash.result # OK
             THEN [result |-> last_slash.result, nav |-> n]
             ELSE change_level_refresh(h, [n EXCEPT !.level = SubSeq(@, 1, last_slash.value)])
    ELSE change_level_refresh(h, n)

\* StoreNavigator.__init__; only the rows matter to what it selects.
StoreNavigator_init(h, min_row, max_row) ==
    change_level(h, [NoNav EXCEPT !.exists = TRUE, !.row_extent = Extent(min_row, max_row)], 0)

\* change_selection; what it draws is not kept.
change_selection(h, n, direction) ==
    LET cc == get_container_count(h, n.level_container)
        ec == get_entry_count(h, n.level_container)
    IN  IF n.selection <= 0 /\ direction < 0
        THEN [result |-> OK, value |-> n.selection, nav |-> n]
        ELSE IF n.selection >= cc + ec - 1 /\ direction > 0
        THEN [result |-> OK, value |-> n.selection, nav |-> n]
        ELSE LET selection == n.selection + direction
                 up == IF selection < n.top_row_index
                       THEN n.top_row_index - 1 ELSE n.top_row_index
                 top_row_index == IF selection >= up + span(n.row_extent) THEN up + 1 ELSE up
             IN  [result |-> OK, value |-> selection,
                  nav |-> [n EXCEPT !.selection = selection, !.top_row_index = top_row_index]]

\* A call of the navigator: it changes the navigator and nothing of the store.
NavCall(op, args, r) ==
    /\ last.op = "none"
    /\ last' = [NoCall EXCEPT !.op = op, !.args = args, !.result = r.result,
                              !.value = IF "value" \in DOMAIN r THEN r.value ELSE None]
    /\ pre' = Heap
    /\ nav' = r.nav
    /\ UNCHANGED <<containers, entries, fields, file>>

Do_StoreNavigator(min_row, max_row) ==
    NavCall("StoreNavigator", <<min_row, max_row>>, StoreNavigator_init(Heap, min_row, max_row))
Do_change_selection(direction) ==
    NavCall("change_selection", <<direction>>, change_selection(Heap, nav, direction))
Do_change_level(direction) ==
    NavCall("change_level", <<direction>>, change_level(Heap, nav, direction))

\* A new store in its process: an empty root, entries as Entry() makes them,
\* no file yet.
InitHeap == [c |-> EntryContainer_init.c, e |-> EntryContainer_init.e,
             f |-> [x \in EntryObjs |-> Entry_init(NoneText, NoneText, NoneText)],
             file |-> NoFile]

Init ==
    /\ containers = InitHeap.c
    /\ entries = InitHeap.e
    /\ fields = InitHeap.f
    /\ file = InitHeap.file
    /\ nav = NoNav
    /\ last = NoCall
    /\ pre = InitHeap

\* One EntryContainer, as in the unit tests (self.cut = EntryContainer()), and
\* every operation of it with names up to MaxLen characters.
NextEC ==
    \/ /\ last.op = "none"
       /\ \E cont \in Children, name \in ECNames :
             UnheldContainer(Heap, Root, cont) /\ Do_add_container(Root, cont, name)
    \/ /\ last.op = "none"
       /\ \E old \in LookupNames(ECNames), new \in ECNames : Do_rename_container(Root, old, new)
    \/ /\ last.op = "none"
       /\ \E name \in ECNames : Do_remove_container(Root, name)
    \/ /\ last.op = "none"
       /\ \E entry \in EntryObjs, name \in ECNames :
             UnheldEntry(Heap, entry) /\ Do_add_entry(Root, entry, name)
    \/ /\ last.op = "none"
       /\ \E entry \in EntryObjs, name \in ECNames :
             UnheldEntry(Heap, entry) /\ Do_replace_entry(Root, entry, name)
    \/ /\ last.op = "none"
       /\ \E old \in LookupNames(ECNames), new \in ECNames : Do_rename_entry(Root, old, new)
    \/ /\ last.op = "none"
       /\ \E name \in ECNames : Do_remove_entry(Root, name)
    \/ /\ last.op = "none"
       /\ Do_clear(Root)
    \/ Observe

SpecEC == Init /\ [][NextEC]_vars

\* A store (root: container 0) used through PasswordStore and through the
\* containers it hands out, by a caller that adds only objects no container
\* holds.
Next ==
    \/ /\ last.op = "none"
       /\ \E self \in Nodes, cont \in Children, name \in StoreNames :
             UnheldContainer(Heap, self, cont) /\ Do_add_container(self, cont, name)
    \/ /\ last.op = "none"
       /\ \E self \in Nodes, old \in StoreNames, new \in StoreNames :
             Do_rename_container(self, old, new)
    \/ /\ last.op = "none"
       /\ \E self \in Nodes, name \in StoreNames : Do_remove_container(self, name)
    \/ /\ last.op = "none"
       /\ \E self \in Nodes, entry \in EntryObjs, name \in StoreNames :
             UnheldEntry(Heap, entry) /\ Do_add_entry(self, entry, name)
    \/ /\ last.op = "none"
       /\ \E self \in Nodes, entry \in EntryObjs, name \in StoreNames :
             UnheldEntry(Heap, entry) /\ Do_replace_entry(self, entry, name)
    \/ /\ last.op = "none"
       /\ \E self \in Nodes, old \in StoreNames, new \in StoreNames :
             Do_rename_entry(self, old, new)
    \/ /\ last.op = "none"
       /\ \E self \in Nodes, name \in StoreNames : Do_remove_entry(self, name)
    \/ /\ last.op = "none"
       /\ \E entry \in EntryObjs \cup {None}, name \in StoreNames, path \in StorePaths :
             /\ IF entry = None THEN TRUE ELSE UnheldEntry(Heap, entry)
             /\ Do_store_add_entry(entry, name, path)
    \/ /\ last.op = "none"
       /\ \E cont \in Children \cup {None}, name \in StoreNames, path \in StorePaths :
             /\ IF cont = None THEN TRUE ELSE UnheldContainer(Heap, Root, cont)
             /\ Do_store_add_container(cont, name, path)
    \/ /\ last.op = "none"
       /\ \E path \in StorePaths : Do_get_container_by_path(path)
    \/ /\ last.op = "none"
       /\ \E path \in StorePaths : Do_is_valid_path(path)
    \/ /\ last.op = "none"
       /\ \E path \in StorePaths : Do_get_entry_by_path(path)
    \/ /\ last.op = "none"
       /\ \E entry \in EntryObjs \cup {None}, name \in StoreNames, path \in StorePaths :
             /\ IF entry = None THEN TRUE ELSE UnheldEntry(Heap, entry)
             /\ Do_update_entry(path, name, entry)
    \/ Observe

Spec == Init /\ [][Next]_vars

\* The same store used by a caller that passes any container it holds a
\* reference to, the root and the receiver included.
AliasNames == {<<"a">>}
AliasPaths == {<<"/">>, <<"/", "a">>}

NextAlias ==
    \/ /\ last.op = "none"
       /\ \E self \in Nodes, cont \in Nodes : Do_add_container(self, cont, <<"a">>)
    \/ /\ last.op = "none"
       /\ \E self \in Nodes : Do_remove_container(self, <<"a">>)
    \/ /\ last.op = "none"
       /\ \E cont \in Nodes, path \in AliasPaths : Do_store_add_container(cont, <<"a">>, path)
    \/ /\ last.op = "none"
       /\ \E self \in Nodes, entry \in EntryObjs : Do_add_entry(self, entry, <<"a">>)
    \/ Observe

SpecAlias == Init /\ [][NextAlias]_vars

\* Entry objects alone, as in src/ut/test_entry.py: made by the constructor
\* and changed by the setters.
NextEntry ==
    \/ /\ last.op = "none"
       /\ \E x \in EntryObjs, username \in FieldValues, password \in FieldValues,
             url \in FieldValues : Do_Entry(x, username, password, url)
    \/ /\ last.op = "none"
       /\ \E x \in EntryObjs, username \in FieldTexts : Do_set_username(x, username)
    \/ /\ last.op = "none"
       /\ \E x \in EntryObjs, password \in FieldTexts : Do_set_password(x, password)
    \/ /\ last.op = "none"
       /\ \E x \in EntryObjs, url \in FieldTexts : Do_set_url(x, url)
    \/ Observe

SpecEntry == Init /\ [][NextEntry]_vars

\* A tree built by the add operations from new containers and entries, then
\* written as a document and read back.
NextDoc ==
    \/ /\ last.op = "none"
       /\ \E x \in EntryObjs, k \in EntryKinds :
             UnheldEntry(Heap, x) /\ Do_Entry(x, k[1], k[2], k[3])
    \/ /\ last.op = "none"
       /\ \E self \in Nodes, cont \in Children, name \in DocNames :
             UnheldContainer(Heap, self, cont) /\ Do_add_container(self, cont, name)
    \/ /\ last.op = "none"
       /\ \E self \in Nodes, entry \in EntryObjs, name \in DocNames :
             UnheldEntry(Heap, entry) /\ Do_add_entry(self, entry, name)
    \/ /\ last.op = "none"
       /\ Do_serialize_to_xml
    \/ /\ last.op = "none"
       /\ \E data \in {NoData, serialize_to_xml(TreeOf(Heap, Root))} : Do_PasswordStore(data)
    \/ Observe

SpecDoc == Init /\ [][NextDoc]_vars

\* The documents a file can hold that this program did not write: element
\* trees of the store's tags with a name attribute or a text missing, or not
\* base64, or a name that is no legal name or is there twice; and bytes that
\* are no XML at all.
BadBase64 == <<"Y">>
ForeignFields ==
    {<<>>,
     <<Element(USERNAME_TAG, EmptyDict, b64encode_text(<<"a">>), <<>>)>>,
     <<Element(USERNAME_TAG, EmptyDict, NoneText, <<>>)>>,
     <<Element(PASSWORD_TAG, EmptyDict, BadBase64, <<>>)>>}
ForeignNames ==
    {EmptyDict,
     Put(EmptyDict, NAME_ATTRIBUTE, b64encode_text(<<"a">>)),
     Put(EmptyDict, NAME_ATTRIBUTE, b64encode_text(<<"/">>)),
     Put(EmptyDict, NAME_ATTRIBUTE, BadBase64)}
ForeignElements ==
    {Element(ENTRY_TAG, attrib, NoneText, kids) : attrib \in ForeignNames, kids \in ForeignFields}
       \cup {Element(CONTAINER_TAG, attrib, NoneText, kids) :
                attrib \in {EmptyDict, Put(EmptyDict, NAME_ATTRIBUTE, b64encode_text(<<"a">>))},
                kids \in {<<>>, <<Element(ENTRY_TAG, Put(EmptyDict, NAME_ATTRIBUTE,
                                                         b64encode_text(<<"a">>)), NoneText, <<>>)>>}}
       \cup {Element("other", EmptyDict, NoneText, <<>>)}
ForeignData ==
    {tostring(Element(ROOT_TAG, EmptyDict, NoneText,
                      <<Element(STORE_ROOT_TAG, EmptyDict, NoneText, kids)>>)) :
        kids \in SeqsUpTo(ForeignElements, MaxForeignKids)}
       \cup {tostring(Element(ROOT_TAG, EmptyDict, NoneText, <<>>)), NotXml, EmptyData}

Passwords == {<<"p">>, <<"q">>}

\* The files open_pw_store can find: none, or one written under some password.
Files ==
    {NoFile} \cup {[exists |-> TRUE, password |-> password, data |-> data] :
                     password \in Passwords, data \in ForeignData}

InitFile ==
    /\ containers = InitHeap.c
    /\ entries = InitHeap.e
    /\ fields = InitHeap.f
    /\ file \in Files
    /\ nav = NoNav
    /\ last = NoCall
    /\ pre = [InitHeap EXCEPT !.file = file]

\* A process that opens the store of the file, or makes a store from what the
\* file holds.
NextFile ==
    \/ /\ last.op = "none"
       /\ \E password \in Passwords : Do_open_pw_store(password)
    \/ /\ last.op = "none"
       /\ \E data \in {NoData, file.data} : Do_PasswordStore(data)
    \/ Observe

SpecFile == InitFile /\ [][NextFile]_vars

\* A store that is changed and, now and then, saved. The entries given to it
\* differ in a field, so that the document tells them apart.
SaveNames == {<<"a">>, <<"b">>}
SavePaths == {<<"/">>, <<"/", "a">>, <<"/", "b">>}
InitSave ==
    /\ containers = InitHeap.c
    /\ entries = InitHeap.e
    /\ fields = [x \in EntryObjs |->
                   IF x = 1 THEN Entry_init(NoneText, NoneText, NoneText)
                   ELSE Entry_init(<<"a">>, NoneText, NoneText)]
    /\ file = NoFile
    /\ nav = NoNav
    /\ last = NoCall
    /\ pre = [InitHeap EXCEPT !.f = fields]

NextSave ==
    \/ /\ last.op = "none"
       /\ \E password \in Passwords : Do_open_pw_store(password)
    \/ /\ last.op = "none"
       /\ \E password \in Passwords : Do_save(password)
    \/ /\ last.op = "none"
       /\ \E entry \in EntryObjs, name \in SaveNames, path \in SavePaths :
             UnheldEntry(Heap, entry) /\ Do_store_add_entry(entry, name, path)
    \/ /\ last.op = "none"
       /\ \E cont \in Children, name \in SaveNames :
             UnheldContainer(Heap, Root, cont) /\ Do_store_add_container(cont, name, <<"/">>)
    \/ /\ last.op = "none"
       /\ \E entry \in EntryObjs, name \in SaveNames, path \in SavePaths :
             UnheldEntry(Heap, entry) /\ Do_update_entry(path, name, entry)
    \/ /\ last.op = "none"
       /\ \E old \in SaveNames, new \in SaveNames : Do_rename_container(Root, old, new)
    \/ /\ last.op = "none"
       /\ \E self \in Nodes, name \in SaveNames : Do_remove_entry(self, name)
    \/ /\ last.op = "none"
       /\ \E name \in SaveNames : Do_remove_container(Root, name)
    \/ Observe

SpecSave == InitSave /\ [][NextSave]_vars

\* update_entry in its two steps, in a process that can be interrupted
\* between them and saves the store then.
UpdatePaths == {<<"/", "a">>, <<"/", "b">>, <<"/", "a", "/", "a">>}
NextUpdate ==
    \/ /\ last.op = "none"
       /\ \E entry \in EntryObjs, name \in SaveNames, path \in SavePaths :
             UnheldEntry(Heap, entry) /\ Do_store_add_entry(entry, name, path)
    \/ /\ last.op = "none"
       /\ \E cont \in Children, name \in SaveNames :
             UnheldContainer(Heap, Root, cont) /\ Do_store_add_container(cont, name, <<"/">>)
    \/ /\ last.op = "none"
       /\ \E self \in Nodes, name \in SaveNames : Do_remove_entry(self, name)
    \/ /\ last.op = "none"
       /\ \E password \in Passwords : Do_save(password)
    \/ /\ last.op = "none"
       /\ \E entry \in EntryObjs, name \in SaveNames, path \in UpdatePaths :
             UnheldEntry(Heap, entry) /\ Do_update_entry_rename(path, name, entry)
    \/ Do_update_entry_replace
    \/ Do_KeyboardInterrupt
    \/ \E password \in Passwords : Do_save_interrupted(password)
    \/ /\ last.result # AtLine307
       /\ Observe

SpecUpdate == InitSave /\ [][NextUpdate]_vars

\* A store is filled, then a StoreNavigator is made of it and turned and
\* pressed; the store is not changed any more.
Directions == {-1, 0, 1}
NextNav ==
    \/ /\ last.op = "none"
       /\ ~nav.exists
       /\ \E entry \in EntryObjs, name \in SaveNames, path \in SavePaths :
             UnheldEntry(Heap, entry) /\ Do_store_add_entry(entry, name, path)
    \/ /\ last.op = "none"
       /\ ~nav.exists
       /\ \E cont \in Children, name \in SaveNames :
             UnheldContainer(Heap, Root, cont) /\ Do_store_add_container(cont, name, <<"/">>)
    \/ /\ last.op = "none"
       /\ ~nav.exists
       /\ \E max_row \in 0 .. (MaxVisibleRows - 1) : Do_StoreNavigator(0, max_row)
    \/ /\ last.op = "none"
       /\ nav.exists
       /\ \E direction \in Directions : Do_change_selection(direction)
    \/ /\ last.op = "none"
       /\ nav.exists
       /\ \E direction \in Directions : Do_change_level(direction)
    \/ Observe

SpecNav == InitSave /\ [][NextNav]_vars

\* ------------------------------------------------------------------ claims

\* The characters the store reserves, as the specification lists them.
ReservedChars == {"'", "\\", "/"}
ContainsReserved(name) == \E i \in DOMAIN name : name[i] \in ReservedChars
AddOps == {"add_container", "add_entry"}
RenameOps == {"rename_container", "rename_entry"}
ContainerOps == {"add_container", "rename_container", "remove_container"}
EntryOps == {"add_entry", "replace_entry", "rename_entry", "remove_entry"}

\* C1: after any sequence of EntryContainer operations no key of the
\* containers dict and no key of the entries dict contains ' \ or /, and a
\* call that gives such a name (to add, or as the new name of a rename) fails
\* and leaves both dicts as they were: the name is not stored in another form.
C1_KeysHoldNoReservedChar ==
    /\ \A n \in Nodes : \A k \in DOMAIN containers[n] \cup DOMAIN entries[n] :
          ~ContainsReserved(k)
    /\ (last.op \in AddOps /\ ContainsReserved(last.name))
          => (last.result # OK /\ Heap = pre)
    /\ (last.op \in RenameOps /\ ContainsReserved(last.new))
          => (last.result # OK /\ Heap = pre)

C1_Witness ==
    /\ last.op = "rename_container"
    /\ last.name \in DOMAIN pre.c[Root]
    /\ Len(last.new) = MaxLen
    /\ ContainsReserved(last.new)
    /\ DOMAIN entries[Root] # {}

\* C2: add_container (add_entry) with a name that is already a key of the
\* containers (entries) dict fails with Duplicate, the name still maps to the
\* child stored before the call and the count of the namespace is unchanged.
C2_DuplicateAddRejected ==
    /\ (last.op = "add_container" /\ last.name \in DOMAIN pre.c[last.self])
          => /\ last.result = ECDuplicateException
             /\ get_container(Heap, last.self, last.name)
                   = [result |-> OK, value |-> pre.c[last.self][last.name]]
             /\ get_container_count(Heap, last.self) = get_container_count(pre, last.self)
             /\ Heap = pre
    /\ (last.op = "add_entry" /\ last.name \in DOMAIN pre.e[last.self])
          => /\ last.result = ECDuplicateException
             /\ get_entry(Heap, last.self, last.name)
                   = [result |-> OK, value |-> pre.e[last.self][last.name]]
             /\ get_entry_count(Heap, last.self) = get_entry_count(pre, last.self)
             /\ Heap = pre

C2_Witness ==
    /\ last.op = "add_container"
    /\ last.result = ECDuplicateException
    /\ last.obj # containers[last.self][last.name]

\* C3: add_container and add_entry with a name that holds ' \ or / at any
\* position fail with NaughtyCharacter and insert nothing.
C3_ReservedCharRejected ==
    (last.op \in AddOps /\ ContainsReserved(last.name))
       => (last.result = ECNaughtyCharacterException /\ Heap = pre)

C3_Witness ==
    /\ last.op = "add_entry"
    /\ Len(last.name) = 3
    /\ last.name[2] \in ReservedChars
    /\ last.result = ECNaughtyCharacterException

\* C4: add_container (add_entry) with a name that holds no reserved character
\* and is not yet a key succeeds; afterwards has_container is true of the
\* name, get_container returns the object that was added and the count has
\* grown by one.  get_container and get_entry of an absent name fail with
\* NotFound.
C4_AddThenGet ==
    /\ (last.op = "add_container" /\ ~ContainsReserved(last.name)
           /\ last.name \notin DOMAIN pre.c[last.self])
          => /\ last.result = OK
             /\ has_container(Heap, last.self, last.name)
             /\ get_container(Heap, last.self, last.name) = [result |-> OK, value |-> last.obj]
             /\ get_container_count(Heap, last.self) = get_container_count(pre, last.self) + 1
    /\ (last.op = "add_entry" /\ ~ContainsReserved(last.name)
           /\ last.name \notin DOMAIN pre.e[last.self])
          => /\ last.result = OK
             /\ has_entry(Heap, last.self, last.name)
             /\ get_entry(Heap, last.self, last.name) = [result |-> OK, value |-> last.obj]
             /\ get_entry_count(Heap, last.self) = get_entry_count(pre, last.self) + 1
    /\ \A name \in ECNames :
          /\ name \notin DOMAIN containers[Root]
                => get_container(Heap, Root, name).result = ECNotFoundException
          /\ name \notin DOMAIN entries[Root]
                => get_entry(Heap, Root, name).result = ECNotFoundException

C4_Witness ==
    /\ last.op = "add_entry"
    /\ last.result = OK
    /\ Len(last.name) = MaxLen
    /\ get_entry_count(Heap, Root) = 2
    /\ get_container_count(Heap, Root) = 1

\* C7: replace_entry of a name absent from the entries dict fails with
\* NotFound and creates nothing; of a name that is present, it makes the name
\* map to the new entry and leaves the set of entry names as it was.
C7_ReplaceInPlace ==
    /\ (last.op = "replace_entry" /\ last.name \notin DOMAIN pre.e[last.self])
          => (last.result = ECNotFoundException /\ Heap = pre)
    /\ (last.op = "replace_entry" /\ last.name \in DOMAIN pre.e[last.self])
          => /\ last.result = OK
             /\ entries[last.self][last.name] = last.obj
             /\ DOMAIN entries[last.self] = DOMAIN pre.e[last.self]

C7_Witness ==
    /\ last.op = "replace_entry"
    /\ last.result = OK
    /\ pre.e[last.self][last.name] # last.obj

\* C9: an operation on the container namespace leaves the entries dict as it
\* was and an operation on the entry namespace leaves the containers dict as
\* it was; add fails with Duplicate exactly when the name is a key of its own
\* namespace, and so does a rename whose old name is present, whatever the
\* other namespace holds.
C9_NamespacesIndependent ==
    /\ last.op \in ContainerOps => entries = pre.e
    /\ last.op \in EntryOps => containers = pre.c
    /\ last.op = "add_container"
          => (last.result = ECDuplicateException <=> last.name \in DOMAIN pre.c[last.self])
    /\ last.op = "add_entry"
          => (last.result = ECDuplicateException <=> last.name \in DOMAIN pre.e[last.self])
    /\ (last.op = "rename_container" /\ last.name \in DOMAIN pre.c[last.self])
          => (last.result = ECDuplicateException <=> last.new \in DOMAIN pre.c[last.self])
    /\ (last.op = "rename_entry" /\ last.name \in DOMAIN pre.e[last.self])
          => (last.result = ECDuplicateException <=> last.new \in DOMAIN pre.e[last.self])

C9_Witness ==
    /\ last.op = "add_container"
    /\ last.result = OK
    /\ last.name \in DOMAIN entries[last.self]
    /\ last.name \in DOMAIN containers[last.self]

\* The part of heap h that hangs below container n: n, the containers
\* reachable from it, and their two dicts.
SubtreeSame(h1, h2, n) ==
    /\ Reach(h1, n) = Reach(h2, n)
    /\ \A m \in Reach(h1, n) : h1.c[m] = h2.c[m] /\ h1.e[m] = h2.e[m]
OthersSame(h1, h2, self) ==
    \A m \in Nodes \ {self} : h1.c[m] = h2.c[m] /\ h1.e[m] = h2.e[m]

\* C5: rename_container (rename_entry) with old present, new absent and new
\* free of reserved characters succeeds; afterwards old is absent, new maps
\* to the very object old mapped to (a container keeps its whole subtree),
\* every other key maps to what it mapped to, and the count is unchanged.
C5_RenameMovesTheChild ==
    /\ (last.op = "rename_container" /\ last.name \in DOMAIN pre.c[last.self]
           /\ last.new \notin DOMAIN pre.c[last.self] /\ ~ContainsReserved(last.new))
          => /\ last.result = OK
             /\ ~has_container(Heap, last.self, last.name)
             /\ get_container(Heap, last.self, last.new)
                   = [result |-> OK, value |-> pre.c[last.self][last.name]]
             /\ SubtreeSame(Heap, pre, pre.c[last.self][last.name])
             /\ \A k \in DOMAIN pre.c[last.self] \ {last.name} :
                   get_container(Heap, last.self, k) = get_container(pre, last.self, k)
             /\ DOMAIN containers[last.self]
                   = (DOMAIN pre.c[last.self] \ {last.name}) \cup {last.new}
             /\ get_container_count(Heap, last.self) = get_container_count(pre, last.self)
    /\ (last.op = "rename_entry" /\ last.name \in DOMAIN pre.e[last.self]
           /\ last.new \notin DOMAIN pre.e[last.self] /\ ~ContainsReserved(last.new))
          => /\ last.result = OK
             /\ ~has_entry(Heap, last.self, last.name)
             /\ get_entry(Heap, last.self, last.new)
                   = [result |-> OK, value |-> pre.e[last.self][last.name]]
             /\ \A k \in DOMAIN pre.e[last.self] \ {last.name} :
                   get_entry(Heap, last.self, k) = get_entry(pre, last.self, k)
             /\ DOMAIN entries[last.self]
                   = (DOMAIN pre.e[last.self] \ {last.name}) \cup {last.new}
             /\ get_entry_count(Heap, last.self) = get_entry_count(pre, last.self)

\* A container that holds an entry is renamed next to a sibling.
C5_Witness ==
    /\ last.op = "rename_container"
    /\ last.result = OK
    /\ get_container_count(Heap, last.self) = 2
    /\ get_entry_count(Heap, containers[last.self][last.new]) > 0

\* The path of the child called name of the container at path p.
ChildPath(p, name) == p \o <<"/">> \o name
\* Path q is path p or lies below it.
AtOrBelow(q, p) ==
    LET qs == simplify_path(q)
        ps == simplify_path(p)
    IN  /\ Len(qs) >= Len(ps)
        /\ SubSeq(qs, 1, Len(ps)) = ps
        /\ (Len(qs) = Len(ps) \/ qs[Len(ps) + 1] = "/")

\* C6: remove_container (remove_entry) of an absent name fails with NotFound;
\* of a present name it deletes that key and nothing else: the count drops by
\* one, the other keys and all other containers are untouched, and when the
\* removed container was the one at path p/name, no path at or below p/name
\* leads to a container any more.
C6_RemoveDeletesOneKey ==
    /\ (last.op = "remove_container" /\ last.name \notin DOMAIN pre.c[last.self])
          => (last.result = ECNotFoundException /\ Heap = pre)
    /\ (last.op = "remove_entry" /\ last.name \notin DOMAIN pre.e[last.self])
          => (last.result = ECNotFoundException /\ Heap = pre)
    /\ (last.op = "remove_container" /\ last.name \in DOMAIN pre.c[last.self])
          => /\ last.result = OK
             /\ DOMAIN containers[last.self] = DOMAIN pre.c[last.self] \ {last.name}
             /\ get_container_count(Heap, last.self) = get_container_count(pre, last.self) - 1
             /\ \A k \in DOMAIN containers[last.self] :
                   containers[last.self][k] = pre.c[last.self][k]
             /\ entries = pre.e
             /\ OthersSame(Heap, pre, last.self)
             /\ \A p \in StorePaths :
                   (/\ get_container_by_path(pre, p) = [result |-> OK, value |-> last.self]
                    /\ get_container_by_path(pre, ChildPath(p, last.name))
                          = [result |-> OK, value |-> pre.c[last.self][last.name]])
                   => \A q \in StorePaths :
                         AtOrBelow(q, ChildPath(p, last.name))
                            => get_container_by_path(Heap, q).result = ECNotFoundException
    /\ (last.op = "remove_entry" /\ last.name \in DOMAIN pre.e[last.self])
          => /\ last.result = OK
             /\ DOMAIN entries[last.self] = DOMAIN pre.e[last.self] \ {last.name}
             /\ get_entry_count(Heap, last.self) = get_entry_count(pre, last.self) - 1
             /\ \A k \in DOMAIN entries[last.self] :
                   entries[last.self][k] = pre.e[last.self][k]
             /\ containers = pre.c
             /\ OthersSame(Heap, pre, last.self)

\* A container that holds a container is removed from the root, which also
\* holds an entry: a path of two segments stops leading anywhere.
C6_Witness ==
    /\ last.op = "remove_container"
    /\ last.result = OK
    /\ last.self = Root
    /\ get_entry_count(Heap, Root) = 1
    /\ \E q \in StorePaths :
          /\ AtOrBelow(q, ChildPath(<<"/">>, last.name))
          /\ Len(simplify_path(q)) > Len(last.name) + 1
          /\ get_container_by_path(pre, q).result = OK
          /\ get_container_by_path(Heap, q).result = ECNotFoundException

\* C8 as the specification states it: no child container and no child entry
\* is ever stored under the empty name.
C8_NoChildUnderEmptyName ==
    \A n \in Nodes : <<>> \notin DOMAIN containers[n] /\ <<>> \notin DOMAIN entries[n]

\* C8, amended: the EntryContainer operations accept the empty name (it holds
\* no reserved character, and add_container does not even look): add and
\* rename store the child under the empty name when that key is free.  Only
\* PasswordStore.add_container and PasswordStore.add_entry refuse an empty
\* name, with the generic store error and without touching the tree.
C8_EmptyNameRefusedByStoreOnly ==
    /\ (last.op = "add_container" /\ last.name = <<>> /\ <<>> \notin DOMAIN pre.c[last.self])
          => (last.result = OK /\ containers[last.self][<<>>] = last.obj)
    /\ (last.op = "add_entry" /\ last.name = <<>> /\ <<>> \notin DOMAIN pre.e[last.self])
          => (last.result = OK /\ entries[last.self][<<>>] = last.obj)
    /\ (last.op = "rename_container" /\ last.new = <<>>
           /\ last.name \in DOMAIN pre.c[last.self] /\ <<>> \notin DOMAIN pre.c[last.self])
          => (last.result = OK /\ containers[last.self][<<>>] = pre.c[last.self][last.name])
    /\ (last.op = "rename_entry" /\ last.new = <<>>
           /\ last.name \in DOMAIN pre.e[last.self] /\ <<>> \notin DOMAIN pre.e[last.self])
          => (last.result = OK /\ entries[last.self][<<>>] = pre.e[last.self][last.name])
    /\ (last.op \in {"store_add_container", "store_add_entry"} /\ last.name = <<>>)
          => (last.result = ECException /\ Heap = pre)

C8_Witness ==
    /\ last.op = "add_container"
    /\ last.name = <<>>
    /\ last.result = OK
    /\ <<>> \in DOMAIN containers[last.self]

\* The (container, key) pairs under which an object is held.
ContainerHolders(h, x) ==
    UNION {{<<n, k>> : k \in {j \in DOMAIN h.c[n] : h.c[n][j] = x}} : n \in Nodes}
EntryHolders(h, x) ==
    UNION {{<<n, k>> : k \in {j \in DOMAIN h.e[n] : h.e[n][j] = x}} : n \in Nodes}

\* C10: the store is a tree in every state the add, rename, replace and
\* remove operations reach: no container and no entry of the store is held
\* twice (by two parents or under two names), the root is held by none, and
\* no container of the store is reachable from its own children.
C10_StoreIsATree ==
    \A n \in Reach(Heap, Root) :
       /\ \A k \in DOMAIN containers[n] :
             /\ Cardinality(ContainerHolders(Heap, containers[n][k])) = 1
             /\ n \notin Reach(Heap, containers[n][k])
       /\ \A k \in DOMAIN entries[n] :
             Cardinality(EntryHolders(Heap, entries[n][k])) = 1

\* The non-empty segments of a path, in order.
PathSegments(path) == SelectSeq(split(path, "/"), NonEmpty)

\* The walks of heap h from the root along segs: ch[i] is the container the
\* first i segments lead to, each segment a key of the containers dict of the
\* container before it.
ContainerWalks(h, segs) ==
    {ch \in [0 .. Len(segs) -> Nodes] :
        /\ ch[0] = Root
        /\ \A i \in 1 .. Len(segs) :
              /\ segs[i] \in DOMAIN h.c[ch[i - 1]]
              /\ h.c[ch[i - 1]][segs[i]] = ch[i]}

\* C11: get_container_by_path of a path without a non-empty segment returns
\* the root; of any other path it returns the container the walk along the
\* non-empty segments ends in, and it fails with NotFound when some segment is
\* not a key of the containers dict it is looked up in, be it a key of the
\* entries dict or not.  It changes nothing.
C11_GetContainerByPath ==
    last.op = "get_container_by_path"
       => LET segs == PathSegments(last.path)
              walks == ContainerWalks(pre, segs)
          IN  /\ Heap = pre
              /\ segs = <<>> => (last.result = OK /\ last.value = Root)
              /\ walks # {}
                    => (last.result = OK /\ \A ch \in walks : last.value = ch[Len(segs)])
              /\ walks = {} => last.result = ECNotFoundException

\* A path of two segments whose first segment names an entry of the root and
\* no container of it.
C11_Witness ==
    /\ last.op = "get_container_by_path"
    /\ Len(PathSegments(last.path)) = 2
    /\ PathSegments(last.path)[1] \in DOMAIN entries[Root] \ DOMAIN containers[Root]
    /\ last.result = ECNotFoundException

\* A path of two segments that leads to a container two levels down.
C11_WitnessFound ==
    /\ last.op = "get_container_by_path"
    /\ Len(PathSegments(last.path)) = 2
    /\ last.result = OK
    /\ last.value # Root

\* C12: is_valid_path raises nothing and changes nothing; it returns true
\* exactly when the path has no non-empty segment, or every segment but the
\* last is a container along the walk from the root and the last one is a key
\* of the containers dict or of the entries dict of the container reached;
\* and exactly when get_container_by_path or get_entry_by_path of the same
\* path succeeds.
C12_IsValidPath ==
    last.op = "is_valid_path"
       => LET segs == PathSegments(last.path)
              k == Len(segs)
              walks == IF k = 0 THEN {} ELSE ContainerWalks(pre, SubSeq(segs, 1, k - 1))
          IN  /\ last.result = OK
              /\ Heap = pre
              /\ last.value \in BOOLEAN
              /\ last.value
                    <=> (k = 0 \/ \E ch \in walks :
                                     segs[k] \in DOMAIN pre.c[ch[k - 1]] \cup DOMAIN pre.e[ch[k - 1]])
              /\ last.value
                    <=> (\/ get_container_by_path(pre, last.path).result = OK
                         \/ get_entry_by_path(pre, last.path).result = OK)

\* A path of two segments, written with a trailing separator or not, whose
\* last segment names an entry and no container.
C12_Witness ==
    /\ last.op = "is_valid_path"
    /\ last.value = TRUE
    /\ Len(PathSegments(last.path)) = 2
    /\ get_container_by_path(Heap, last.path).result = ECNotFoundException
    /\ get_entry_by_path(Heap, last.path).result = OK

StoreAddOps == {"store_add_entry", "store_add_container"}

\* C13: PasswordStore.add_entry and PasswordStore.add_container raise the
\* generic ECException when the object is None or the name is empty, whether
\* the path resolves or not, and leave the tree as it is.  Otherwise a path
\* that does not resolve gives NotFound, a name that is already a key of the
\* destination's namespace gives Duplicate, and a free name with a reserved
\* character gives NaughtyCharacter.
C13_StoreAddErrors ==
    last.op \in StoreAddOps
       => LET dest == get_container_by_path(pre, last.path)
              taken == IF dest.result # OK THEN {}
                       ELSE IF last.op = "store_add_entry" THEN DOMAIN pre.e[dest.value]
                       ELSE DOMAIN pre.c[dest.value]
          IN  /\ (last.obj = None \/ last.name = <<>>)
                    => (last.result = ECException /\ Heap = pre)
              /\ (last.obj # None /\ last.name # <<>> /\ dest.result # OK)
                    => (last.result = ECNotFoundException /\ Heap = pre)
              /\ (last.obj # None /\ last.name # <<>> /\ dest.result = OK
                     /\ last.name \in taken)
                    => (last.result = ECDuplicateException /\ Heap = pre)
              /\ (last.obj # None /\ last.name # <<>> /\ dest.result = OK
                     /\ last.name \notin taken /\ ContainsReserved(last.name))
                    => (last.result = ECNaughtyCharacterException /\ Heap = pre)
              /\ (last.obj # None /\ last.name # <<>> /\ dest.result = OK
                     /\ last.name \notin taken /\ ~ContainsReserved(last.name))
                    => last.result = OK

\* No entry is given, and the path does not resolve either.
C13_Witness ==
    /\ last.op = "store_add_entry"
    /\ last.obj = None
    /\ last.name # <<>>
    /\ get_container_by_path(pre, last.path).result = ECNotFoundException
    /\ last.result = ECException

\* C14: when the path resolves to a container and the name is not empty,
\* holds no reserved character and is not yet a key there,
\* PasswordStore.add_entry succeeds, get_entry_by_path of path + "/" + name
\* returns the name with the entry that was given and is_valid_path of it is
\* true; PasswordStore.add_container succeeds and get_container_by_path of
\* path + "/" + name returns the container that was given.  The container at
\* the path gains that one child and nothing else in the tree changes.
C14_StoreAddThenGetByPath ==
    /\ (last.op = "store_add_entry" /\ last.obj # None /\ last.name # <<>>
           /\ ~ContainsReserved(last.name)
           /\ get_container_by_path(pre, last.path).result = OK
           /\ last.name \notin DOMAIN pre.e[get_container_by_path(pre, last.path).value])
          => LET dest == get_container_by_path(pre, last.path).value
                 child == ChildPath(last.path, last.name)
             IN  /\ last.result = OK
                 /\ get_entry_by_path(Heap, child)
                       = [result |-> OK, value |-> <<last.name, last.obj>>]
                 /\ is_valid_path(Heap, child) = [result |-> OK, value |-> TRUE]
                 /\ entries[dest] = Put(pre.e[dest], last.name, last.obj)
                 /\ containers = pre.c
                 /\ OthersSame(Heap, pre, dest)
    /\ (last.op = "store_add_container" /\ last.obj # None /\ last.name # <<>>
           /\ ~ContainsReserved(last.name)
           /\ get_container_by_path(pre, last.path).result = OK
           /\ last.name \notin DOMAIN pre.c[get_container_by_path(pre, last.path).value])
          => LET dest == get_container_by_path(pre, last.path).value
                 child == ChildPath(last.path, last.name)
             IN  /\ last.result = OK
                 /\ get_container_by_path(Heap, child) = [result |-> OK, value |-> last.obj]
                 /\ is_valid_path(Heap, child) = [result |-> OK, value |-> TRUE]
                 /\ containers[dest] = Put(pre.c[dest], last.name, last.obj)
                 /\ entries = pre.e
                 /\ OthersSame(Heap, pre, dest)

\* A container is added one level down, where an entry of the same name is.
C14_Witness ==
    /\ last.op = "store_add_container"
    /\ last.result = OK
    /\ Len(PathSegments(last.path)) = 1
    /\ get_entry_by_path(Heap, ChildPath(last.path, last.name)).result = OK
    /\ get_container_by_path(Heap, ChildPath(last.path, last.name)).value = last.obj

\* The container and the leaf name get_entry_by_path resolves a path to.
ParentOf(h, path) == get_container_by_path(h, os_path_split(simplify_path(path))[1]).value
LeafOf(path) == os_path_split(simplify_path(path))[2]

\* What C15 promises of a call of update_entry on a path of an entry, with a
\* name that is not empty, holds no reserved character and is the leaf name
\* or free in the parent.
UpdateEntryDone ==
    LET parent == ParentOf(pre, last.path)
        leaf == LeafOf(last.path)
    IN  /\ last.result = OK
        /\ entries[parent] = Put(Pop(pre.e[parent], leaf), last.name, last.obj)
        /\ leaf # last.name => ~has_entry(Heap, parent, leaf)
        /\ get_entry_count(Heap, parent) = get_entry_count(pre, parent)
        /\ containers = pre.c
        /\ OthersSame(Heap, pre, parent)
UpdateEntryAsked ==
    /\ last.op = "update_entry"
    /\ last.obj # None
    /\ last.name # <<>>
    /\ ~ContainsReserved(last.name)
    /\ get_entry_by_path(pre, last.path).result = OK
    /\ (last.name = LeafOf(last.path) \/ last.name \notin DOMAIN pre.e[ParentOf(pre, last.path)])

\* C15: for every path at which get_entry_by_path succeeds, update_entry with
\* a legal name that is the leaf name or absent from the parent's entries
\* succeeds: the parent maps the name to the entry given, the old leaf name is
\* gone when it differs, the parent's entry count is as before and no other
\* container changes.
C15_UpdateEntry == UpdateEntryAsked => UpdateEntryDone

\* What update_entry keeps of C15: the same, for the paths whose text ends in
\* the leaf name, so that os.path.split of the path as given cuts off the
\* name get_entry_by_path finds.  A path with a trailing separator is split
\* into the whole path and an empty name before it is simplified.
C15_UpdateEntryAtSplitPath ==
    (UpdateEntryAsked /\ os_path_split(last.path)[2] = LeafOf(last.path)) => UpdateEntryDone

SetterOps == {"set_username", "set_password", "set_url"}
\* The getter of the field a setter writes, and the getters of the two others.
GetterOf(op, h, x) ==
    IF op = "set_username" THEN get_username(h, x)
    ELSE IF op = "set_password" THEN get_password(h, x)
    ELSE get_url(h, x)
OtherGettersOf(op, h, x) ==
    IF op = "set_username" THEN <<get_password(h, x), get_url(h, x)>>
    ELSE IF op = "set_password" THEN <<get_username(h, x), get_url(h, x)>>
    ELSE <<get_username(h, x), get_password(h, x)>>

\* C17: after set_username, set_password or set_url with a value that is not
\* empty the getter of that field returns the value; with the empty string it
\* returns None, as it does for Entry(); the two other fields of the entry,
\* and every other entry, are as before.
C17_SettersNormalizeEmpty ==
    last.op \in SetterOps
       => /\ last.result = OK
          /\ last.args[1] # <<>> => GetterOf(last.op, Heap, last.obj) = last.args[1]
          /\ last.args[1] = <<>>
                => /\ GetterOf(last.op, Heap, last.obj) = NoneText
                   /\ GetterOf(last.op, Heap, last.obj)
                         = GetterOf(last.op, Entry_new(pre, last.obj, NoneText, NoneText, NoneText).h,
                                    last.obj)
          /\ OtherGettersOf(last.op, Heap, last.obj) = OtherGettersOf(last.op, pre, last.obj)
          /\ \A x \in EntryObjs \ {last.obj} : fields[x] = pre.f[x]

\* The url of an entry that had one is set to the empty string, next to a
\* username the constructor was given as the empty string.
C17_Witness ==
    /\ last.op = "set_url"
    /\ last.args[1] = <<>>
    /\ get_url(pre, last.obj) = <<"a">>
    /\ get_url(Heap, last.obj) = NoneText
    /\ get_username(Heap, last.obj) = <<>>
    /\ get_password(Heap, last.obj) = <<"a">>

\* Container value d is equivalent to container value t: the same container
\* names and the same entry names at every level, every field of every entry
\* the same, with None for a field that is None or the empty string in t.
FieldNames == {"username", "password", "url"}
RECURSIVE Equivalent(_, _)
Equivalent(t, d) ==
    /\ DOMAIN d.c = DOMAIN t.c
    /\ DOMAIN d.e = DOMAIN t.e
    /\ \A k \in DOMAIN t.e : \A f \in FieldNames :
          d.e[k][f] = IF t.e[k][f] = <<>> THEN NoneText ELSE t.e[k][f]
    /\ \A k \in DOMAIN t.c : Equivalent(t.c[k], d.c[k])

\* The document of the tree is given to the constructor.
RoundTripMade ==
    /\ last.op = "PasswordStore"
    /\ last.args[1] = serialize_to_xml(TreeOf(pre, Root))
RoundTripKept ==
    /\ last.result = OK
    /\ ~last.value.is_none
    /\ Equivalent(TreeOf(pre, Root), last.value.root)

\* C16: the document serialize_to_xml makes of a tree built by the add
\* operations, given to PasswordStore(serialized), yields an equivalent tree.
C16_RoundTrip == RoundTripMade => RoundTripKept

\* The containers of a tree value that are stored under the empty name.
RECURSIVE HasUnnamedContainer(_)
HasUnnamedContainer(t) ==
    <<>> \in DOMAIN t.c \/ \E k \in DOMAIN t.c : HasUnnamedContainer(t.c[k])

\* What the codec keeps of C16: the round trip of a tree none of whose
\* containers is stored under the empty name.  serialize_xml writes no name
\* attribute for the empty name, and deserialize_xml reads None for it.
C16_RoundTripOfNamedContainers ==
    (RoundTripMade /\ ~HasUnnamedContainer(TreeOf(pre, Root))) => RoundTripKept

\* The document format of the specification: a cryptex element around one
\* store element; below it entry elements, each with a name attribute and at
\* most one username, password and url element, and container elements, each
\* with a name attribute and the same content; every name and every text
\* base64, the names legal and different within their namespace.
IsBase64Text(text) == text # NoneText /\ b64decode_text(text).result = OK
IsNameAttribute(attrib) ==
    /\ NAME_ATTRIBUTE \in DOMAIN attrib
    /\ IsBase64Text(attrib[NAME_ATTRIBUTE])
    /\ ~ContainsReserved(b64decode_text(attrib[NAME_ATTRIBUTE]).value)
IsEntryElement(el) ==
    /\ el.tag = ENTRY_TAG
    /\ IsNameAttribute(el.attrib)
    /\ \A i \in DOMAIN el.kids :
          /\ el.kids[i].tag \in {USERNAME_TAG, PASSWORD_TAG, URL_TAG}
          /\ IsBase64Text(el.kids[i].text)
          /\ el.kids[i].kids = <<>>
          /\ \A j \in DOMAIN el.kids : el.kids[j].tag = el.kids[i].tag => j = i
RECURSIVE IsContainerContent(_)
IsContainerContent(kids) ==
    /\ \A i \in DOMAIN kids :
          \/ IsEntryElement(kids[i])
          \/ /\ kids[i].tag = CONTAINER_TAG
             /\ IsNameAttribute(kids[i].attrib)
             /\ IsContainerContent(kids[i].kids)
    /\ \A i, j \in DOMAIN kids :
          (kids[i].tag = kids[j].tag /\ kids[i].attrib = kids[j].attrib) => i = j
IsStoreDocument(data) ==
    /\ data.kind = "xml"
    /\ data.root.tag = ROOT_TAG
    /\ Len(data.root.kids) = 1
    /\ data.root.kids[1].tag = STORE_ROOT_TAG
    /\ NAME_ATTRIBUTE \notin DOMAIN data.root.kids[1].attrib
    /\ IsContainerContent(data.root.kids[1].kids)
\* The names of the elements of one tag below the store element.
NamesBelowStore(data, tag) ==
    {b64decode_text(data.root.kids[1].kids[i].attrib[NAME_ATTRIBUTE]).value :
        i \in {j \in DOMAIN data.root.kids[1].kids : data.root.kids[1].kids[j].tag = tag}}

ConstructionOfNothing ==
    (last.op = "PasswordStore" /\ last.args[1] \in {NoData, EmptyData})
       => (last.result = OK /\ ~last.value.is_none /\ is_empty(last.value))
ConstructionOfStoreDocument ==
    (last.op = "PasswordStore" /\ IsStoreDocument(last.args[1]))
       => /\ last.result = OK
          /\ ~last.value.is_none
          /\ DOMAIN last.value.root.c = NamesBelowStore(last.args[1], CONTAINER_TAG)
          /\ DOMAIN last.value.root.e = NamesBelowStore(last.args[1], ENTRY_TAG)

\* C18: PasswordStore(None) is an open store with an empty root;
\* PasswordStore(bytes) is the store of the tree the document describes when
\* the bytes are a document of the store's format, and raises an ECException
\* for all other bytes: no such bytes give an empty store or an exception
\* that is no ECException.
C18_Construction ==
    /\ ConstructionOfNothing
    /\ ConstructionOfStoreDocument
    /\ (last.op = "PasswordStore" /\ last.args[1] \notin {NoData, EmptyData}
           /\ ~IsStoreDocument(last.args[1]))
          => last.result \in ECExceptions

\* What the constructor keeps of C18: bytes that are no XML raise
\* ECException.  XML that is not a document of the store's format is read as
\* far as deserialize_xml gets: without a store element it is an empty store,
\* and what deserialize_xml raises is raised as it is.
C18_ConstructionOfXml ==
    /\ ConstructionOfNothing
    /\ ConstructionOfStoreDocument
    /\ (last.op = "PasswordStore" /\ last.args[1] = NotXml) => last.result = ECException
    /\ (last.op = "PasswordStore" /\ last.args[1].kind = "xml"
           /\ find(last.args[1].root, STORE_ROOT_TAG) = NoneElement)
          => (last.result = OK /\ is_empty(last.value))

\* open_pw_store finds the file, decrypts it, and the constructor fails on
\* what it holds.
OpenOfUnreadableFile ==
    /\ last.op = "open_pw_store"
    /\ pre.file.exists
    /\ decrypt_to_string(pre, last.args[1]).result = OK
    /\ PasswordStore_init(pre.file.data).result # OK

\* C19: when the file exists and the store cannot be made from the decrypted
\* document, open_pw_store raises nothing and returns None, which is no
\* store, an empty one included; the file is as it was.
C19_OpenFailureGivesNoStore ==
    OpenOfUnreadableFile
       => /\ last.result = OK
          /\ last.value = NoStore
          /\ last.value # PasswordStore_init(NoData).value
          /\ file = pre.file

\* What open_pw_store keeps of C19: the same, when the constructor fails
\* with an ECException; any other exception of the constructor leaves
\* open_pw_store as it is.
C19_OpenECExceptionGivesNoStore ==
    /\ (OpenOfUnreadableFile /\ PasswordStore_init(pre.file.data).result \in ECExceptions)
          => /\ last.result = OK
             /\ last.value = NoStore
             /\ last.value # PasswordStore_init(NoData).value
    /\ (OpenOfUnreadableFile /\ PasswordStore_init(pre.file.data).result \notin ECExceptions)
          => last.result = PasswordStore_init(pre.file.data).result
    /\ (last.op = "open_pw_store" /\ pre.file.exists) => file = pre.file

\* C20: when the file does not exist, open_pw_store returns an empty store
\* and has written the file: it exists and holds, under the password given,
\* the document of an empty root, and open_pw_store with the same password
\* then returns an empty store, not None, and writes nothing.
C20_FirstRunBootstrap ==
    /\ (last.op = "open_pw_store" /\ ~pre.file.exists)
          => /\ last.result = OK
             /\ ~last.value.is_none
             /\ is_empty(last.value)
             /\ file.exists
             /\ decrypt_to_string(Heap, last.args[1])
                   = [result |-> OK, value |-> serialize_to_xml(EmptyContainer)]
             /\ LET again == open_pw_store(Heap, last.args[1])
                IN  /\ again.result = OK
                    /\ ~again.value.is_none
                    /\ is_empty(again.value)
                    /\ again.h = Heap
    /\ (last.op = "open_pw_store" /\ pre.file.exists
           /\ pre.file.data = serialize_to_xml(EmptyContainer)
           /\ pre.file.password = last.args[1])
          => /\ last.result = OK
             /\ ~last.value.is_none
             /\ is_empty(last.value)
             /\ file = pre.file

\* The second open_pw_store of a first run, with the password of the first.
C20_Witness ==
    /\ last.op = "open_pw_store"
    /\ pre.file = [exists |-> TRUE, password |-> last.args[1],
                   data |-> serialize_to_xml(EmptyContainer)]
    /\ last.result = OK
    /\ is_empty(last.value)

\* The outcome the specification gives a rename of old to new in a namespace
\* with the given keys: the first of its three checks that fails.
RenameOutcome(keys, old, new) ==
    IF old \notin keys THEN ECNotFoundException
    ELSE IF new \in keys THEN ECDuplicateException
    ELSE IF ContainsReserved(new) THEN ECNaughtyCharacterException
    ELSE OK

\* C23: rename_container and rename_entry report NotFound when the old name
\* is absent, whatever the new name is; otherwise Duplicate when the new name
\* is a key of that namespace, the old name itself included; otherwise
\* NaughtyCharacter when the new name holds an illegal character; and they
\* fail in no other case and with no other error.
C23_RenameCheckOrder ==
    /\ last.op = "rename_container"
          => last.result = RenameOutcome(DOMAIN pre.c[last.self], last.name, last.new)
    /\ last.op = "rename_entry"
          => last.result = RenameOutcome(DOMAIN pre.e[last.self], last.name, last.new)

\* A rename of a present name to itself, in a container that holds another
\* child as well.
C23_Witness ==
    /\ last.op = "rename_entry"
    /\ last.name \in DOMAIN pre.e[last.self]
    /\ last.new = last.name
    /\ last.result = ECDuplicateException
    /\ Cardinality(DOMAIN pre.e[last.self]) > 1

\* The calls that change a container or the store.
MutatingOps ==
    {"add_container", "rename_container", "remove_container", "add_entry", "replace_entry",
     "rename_entry", "remove_entry", "store_add_entry", "store_add_container", "update_entry"}

\* C24: a mutating call of EntryContainer or of PasswordStore that ends in an
\* error leaves every container and every entry as it was before the call.
C24_FailedCallChangesNothing ==
    (last.op \in MutatingOps /\ last.result # OK) => Heap = pre

\* update_entry that fails in its rename step, on an entry that is there, in
\* a container below the root.
C24_Witness ==
    /\ last.op = "update_entry"
    /\ last.result = ECNaughtyCharacterException
    /\ \E n \in Children : n \in Reach(pre, Root) /\ DOMAIN pre.e[n] # {}
    /\ DOMAIN pre.e[Root] = {}

\* The calls that may write the file: save, and open_pw_store when it finds no
\* file.
WritingOps == {"save", "open_pw_store"}

\* C21: no call but save and the first open_pw_store writes the file, so the
\* file holds what the last of them wrote however the store was changed
\* since; open_pw_store writes only where there was no file; and save writes
\* the document of the tree as it is, under the password given, and leaves
\* the tree as it was.
C21_NoAutomaticFlush ==
    /\ last.op \notin WritingOps => file = pre.file
    /\ last.op = "open_pw_store" => (pre.file.exists => file = pre.file)
    /\ last.op = "save"
          => /\ last.result = OK
             /\ containers = pre.c /\ entries = pre.e /\ fields = pre.f
             /\ file = [exists |-> TRUE, password |-> last.args[1],
                        data |-> serialize_to_xml(TreeOf(pre, Root))]

\* An entry of a saved store is updated, and the file is still the document
\* of the tree that was saved.
C21_Witness ==
    /\ last.op = "update_entry"
    /\ last.result = OK
    /\ file.exists
    /\ file.data # serialize_to_xml(TreeOf(Heap, Root))
    /\ file.data = serialize_to_xml(TreeOf(pre, Root))

\* update_entry has renamed and not replaced: it stands before line 307, or
\* was interrupted there.
RenamedNotReplaced == last.op = "update_entry" /\ last.result \in {AtLine307, KeyboardInterrupt}
\* The name of the entry before the call, and the tree its rename alone gives.
CurrentName == os_path_split(last.path)[2]
RenamedTree ==
    IF last.name # CurrentName
    THEN TreeOf(rename_entry(pre, last.value, CurrentName, last.name).h, Root)
    ELSE TreeOf(pre, Root)

\* C22: update_entry to a name other than the current one is two mutations
\* one after the other. Between them the old name is absent and the new name
\* maps to the entry the old name had, not to the entry given; an interrupt
\* there leaves the store so, and a save made then writes the document of
\* the renamed tree with the entry not replaced. Left alone, the two steps
\* give what update_entry gives.
C22_UpdateEntryIntermediateState ==
    /\ (RenamedNotReplaced /\ last.name # CurrentName)
          => /\ CurrentName \notin DOMAIN entries[last.value]
             /\ last.name \in DOMAIN entries[last.value]
             /\ entries[last.value][last.name] = pre.e[last.value][CurrentName]
             /\ entries[last.value][last.name] # last.obj
    /\ RenamedNotReplaced => TreeOf(Heap, Root) = RenamedTree
    /\ (RenamedNotReplaced /\ last.args # <<>>)
          => file = [exists |-> TRUE, password |-> last.args[1],
                     data |-> serialize_to_xml(RenamedTree)]
    /\ (last.op = "update_entry" /\ ~RenamedNotReplaced)
          => LET done == update_entry(pre, last.path, last.name, last.obj)
             IN  last.result = done.result /\ Heap = done.h

\* A save after an interrupt between the rename and the replace: the
\* document is neither that of the tree before the call nor that of the tree
\* the whole call gives.
C22_Witness ==
    /\ last.op = "update_entry"
    /\ last.result = KeyboardInterrupt
    /\ last.args # <<>>
    /\ last.name # CurrentName
    /\ file.data # serialize_to_xml(TreeOf(pre, Root))
    /\ file.data # serialize_to_xml(
                       TreeOf(update_entry(pre, last.path, last.name, last.obj).h, Root))

\* The rows of the level the navigator shows.
RowsOfLevel ==
    get_container_count(Heap, nav.level_container) + get_entry_count(Heap, nav.level_container)
SelectionInBounds ==
    nav.exists
       => /\ 0 <= nav.selection
          /\ nav.selection <= (IF RowsOfLevel = 0 THEN 0 ELSE RowsOfLevel - 1)
SelectionVisible ==
    /\ nav.top_row_index <= nav.selection
    /\ nav.selection < nav.top_row_index + span(nav.row_extent)

\* C25: whatever change_selection and change_level calls are made on an
\* unchanging store, the selection is a row of the current level (or 0 in an
\* empty level), and after every change_selection the selected row is one of
\* the rows shown.
C25_SelectionInBoundsAndVisible ==
    /\ SelectionInBounds
    /\ last.op = "change_selection" => SelectionVisible

\* What holds: the selection is a row of the current level, and it is shown
\* after a change_selection made with no rows above the window.
C25_SelectionInBoundsVisibleFromTop ==
    /\ SelectionInBounds
    /\ (last.op = "change_selection" /\ nav.top_row_index = 0) => SelectionVisible

====
